---- MODULE Spec2Model ----
(***************************************************************************)
(* Model of the Tech2 diagnostic client (djfremen/Tech2-Magic-Operator).   *)
(*                                                                         *)
(* The session client is archive/tech2_download.py's Tech2Communicator:    *)
(* its state is the DiagnosticState field `state` and the serial handle    *)
(* `ser`.  The download client is tech2_communication.py's class of the    *)
(* same name: its state is the file descriptor `port` and `is_connected`.  *)
(* One action models one whole method call.  The channel's behaviour       *)
(* during the call (errors, silence, partial and complete deliveries) is   *)
(* the action's input; what the call did to the channel is recorded in     *)
(* chanLog, what it was given in `call`, what it returned in `ret`.        *)
(*                                                                         *)
(* SendSpec follows one call of send_and_receive statement by statement,   *)
(* in `run`.  KeySpec and FrameSpec apply the key derivations and the      *)
(* frame constructors to inputs drawn by their initial states, in `calc`.  *)
(***************************************************************************)
EXTENDS Integers, Sequences, FiniteSets, TLC

VARIABLES
    state,          \* Tech2Communicator.state (archive/tech2_download.py)
    ser,            \* Tech2Communicator.ser: "None", "open" or "closed"
    port,           \* tech2_communication.Tech2Communicator.port: "None", "fd0", "fd"
    is_connected,   \* tech2_communication.Tech2Communicator.is_connected
    call,           \* the last call: operation, arguments, state before, channel script
    ret,            \* what the last call returned or raised
    chanLog,        \* the channel operations the last call performed, in order
    run,            \* a send_and_receive call followed step by step
    calc,           \* a call of a pure function: its inputs and its result
    dl,             \* a run of a download procedure, phase by phase
    px,             \* a call of an extraction function on an image
    clk             \* the clock and Tech2Communicator.last_activity_time

vars == <<state, ser, port, is_connected, call, ret, chanLog, run, calc,
         dl, px, clk>>

---------------------------------------------------------------------------
(* Bounds of the model *)

\* Largest `retries` argument of a direct send_and_receive call.
MaxRetries == 3

\* Longest image given to the extraction functions.
MaxImageLen == 82

\* Largest number of VIN bytes in a response to the VIN request.
MaxVinLen == 18

\* The clock stops at this many seconds.
MaxTime == 8

\* Longest file given to process_bin_data.
MaxBinLen == 720

\* The number of bytes of a chunk that arrive when the device stops in the
\* middle of it (more than the 2-byte header, less than the shortest chunk).
ShortLen == 40

---------------------------------------------------------------------------
(* Program constants *)

DefaultRetries == 3     \* send_and_receive(..., retries=3, ...)
ConnectRetries == 3     \* connect: max_retries = 3

---------------------------------------------------------------------------
(* DiagnosticState *)

DiagnosticState ==
    {"DISCONNECTED", "CONNECTED", "SESSION_STARTED",
     "SECURITY_REQUESTED", "SECURITY_GRANTED"}

\* The values auto() gives the members, in definition order.
StateValue(s) ==
    CASE s = "DISCONNECTED"       -> 1
      [] s = "CONNECTED"          -> 2
      [] s = "SESSION_STARTED"    -> 3
      [] s = "SECURITY_REQUESTED" -> 4
      [] s = "SECURITY_GRANTED"   -> 5

\* `a < b` on two DiagnosticState members.  DiagnosticState derives from
\* enum.Enum (not IntEnum), which defines no ordering: Python raises
\* TypeError ('<' not supported between instances of 'DiagnosticState').
\* The result is "True", "False" or "TypeError".
EnumLess(a, b) == "TypeError"

SecurityLevel == {1, 251, 253}      \* LEVEL_01, LEVEL_FB, LEVEL_FD

---------------------------------------------------------------------------
(* Bytes and 16-bit arithmetic *)

RECURSIVE Xor(_, _, _)
\* a ^ b on `bits`-bit unsigned integers.
Xor(a, b, bits) ==
    IF bits = 0 THEN 0
    ELSE ((a + b) % 2) + 2 * Xor(a \div 2, b \div 2, bits - 1)

RECURSIVE Or(_, _, _)
\* a | b on `bits`-bit unsigned integers.
Or(a, b, bits) ==
    IF bits = 0 THEN 0
    ELSE (IF a % 2 = 1 \/ b % 2 = 1 THEN 1 ELSE 0)
         + 2 * Or(a \div 2, b \div 2, bits - 1)

\* 2 ** n
Pow2(n) == 2 ^ n

\* x & 0xFFFF, for a Python integer x of any size and sign.
Mask16(x) == x % 65536

HexDigits ==
    <<"0", "1", "2", "3", "4", "5", "6", "7",
      "8", "9", "A", "B", "C", "D", "E", "F">>

\* f"{code:02X}" for a byte.
Hex2(code) == HexDigits[(code \div 16) + 1] \o HexDigits[(code % 16) + 1]

\* response[i] exists (Python indexes from 0).
HasIndex(r, i) == i < Len(r)

\* response[i], for an index that exists.
At(r, i) == r[i + 1]

\* response[i:]
SliceFrom(r, i) == IF i >= Len(r) THEN <<>> ELSE SubSeq(r, i + 1, Len(r))

\* The value None of a response.  send_and_receive never returns an empty
\* bytes object, so `not response` is true of None alone.
NoneResp == <<>>

---------------------------------------------------------------------------
(* Command frames *)

\* start_diagnostic_session: service 0x10, enhanced diagnostics 0x02.
StartSessionCommand == <<6, 126, 0, 2, 16, 2>>

\* format_security_access_request(level)
format_security_access_request(level) == <<7, 126, 0, 3, 39, level, 0>>

\* format_key_response(key, level)
format_key_response(key, level) ==
    <<9, 126, 0, 5, 39, level + 1, (key \div 256) % 256, key % 256, 0>>

\* send_keep_alive: TesterPresent 0x3E 0x00.
KeepAliveCommand == <<6, 126, 0, 2, 62, 0>>

\* read_vin: ReadDataByIdentifier 0x22 for identifier 0x00 0x90.
ReadVinCommand == <<7, 126, 0, 3, 34, 0, 144>>

\* read_data_by_identifier(identifier)
ReadCommand(identifier) ==
    <<7, 126, 0, 3, 34, (identifier \div 256) % 256, identifier % 256>>

\* A faulty variant of WriteCommand: the length bytes do not count the data.
WriteCommandFixedLength(identifier, data) ==
    <<7, 126, 0, 3, 46, (identifier \div 256) % 256, identifier % 256>> \o data

\* write_data_by_identifier(identifier, data): data_length = 3 + len(data).
WriteCommand(identifier, data) ==
    <<(3 + Len(data)) + 4, 126, 0, 3 + Len(data), 46,
      (identifier \div 256) % 256, identifier % 256>> \o data

\* execute_routine(routine_id, params): data_length = 4 + len(params).
RoutineCommand(routine_id, params) ==
    <<(4 + Len(params)) + 4, 126, 0, 4 + Len(params), 49, 1,
      (routine_id \div 256) % 256, routine_id % 256>> \o params

\* ecu_reset(reset_type)
ResetCommand(reset_type) == <<7, 126, 0, 3, 17, reset_type, 0>>

\* tech2_communication.Tech2Communicator.RESTART_COMMAND
RESTART_COMMAND == <<139, 86, 0, 31>>

---------------------------------------------------------------------------
(* translate_error_code *)

error_codes ==
    [c \in {16, 17, 18, 33, 34, 35, 49, 51, 53, 54, 55, 120, 127} |->
        CASE c = 16  -> "General reject"
          [] c = 17  -> "Service not supported"
          [] c = 18  -> "Sub-function not supported - invalid format"
          [] c = 33  -> "Busy, repeat request"
          [] c = 34  -> "Conditions not correct or request sequence error"
          [] c = 35  -> "Routine not completed or service in progress"
          [] c = 49  -> "Request out of range or session dropped"
          [] c = 51  -> "Security access denied"
          [] c = 53  -> "Invalid key supplied"
          [] c = 54  -> "Exceeded number of attempts to get security access"
          [] c = 55  -> "Required time delay not expired"
          [] c = 120 -> "Response pending"
          [] c = 127 -> "General error"]

translate_error_code(code) ==
    IF code \in DOMAIN error_codes
    THEN error_codes[code]
    ELSE "Unknown error code: 0x" \o Hex2(code)

---------------------------------------------------------------------------
(* calculate_key *)

\* A faulty variant of calculate_key: the first addition is not masked to
\* 16 bits.
calculate_key_unmasked(seed, level) ==
    LET base0 == Or(Mask16(seed \div 32), Mask16(seed * 2048), 16)
        base  == base0 + 47496
    IN  IF level = 253
        THEN LET k1 == (base \div 3) % 65536
                 k2 == Xor(k1, 34633, 16)
                 k3 == (k2 + 2767) % 65536
             IN  Xor(k3, 33215, 16)
        ELSE IF level = 251
        THEN LET k1 == Xor(base, 34633, 17)
                 k2 == (k1 + 1747) % 65536
             IN  Xor(k2, 53215, 16)
        ELSE base

\* calculate_key(seed, level).  `seed >> 5` is floor division and
\* `seed << 11` a multiplication, for a seed of any size and sign; the
\* `& 0xFFFF` keeps the low 16 bits of their bitwise or.
calculate_key(seed, level) ==
    LET base0 == Or(Mask16(seed \div 32), Mask16(seed * 2048), 16)
        base  == (base0 + 47496) % 65536
    IN  IF level = 253
        THEN LET k1 == (base \div 3) % 65536
                 k2 == Xor(k1, 34633, 16)
                 k3 == (k2 + 2767) % 65536
             IN  Xor(k3, 33215, 16)
        ELSE IF level = 251
        THEN LET k1 == Xor(base, 34633, 16)
                 k2 == (k1 + 1747) % 65536
             IN  Xor(k2, 53215, 16)
        ELSE base

---------------------------------------------------------------------------
(* The channel during one call of send_and_receive *)

\* One event of chanLog: what was done to the channel, and the bytes.
Ev(e, d) == [ev |-> e, d |-> d]

\* One pass of the polling loop: in_waiting/read raise (err), nothing is
\* waiting (data empty), or the bytes that are read.
Poll(err, data) == [err |-> err, data |-> data]

\* One attempt: how reset_input_buffer and write end ("ok", "reset_err",
\* "write_err"), and the passes of the polling loop that fit in the timeout.
Attempt(pre, polls) == [pre |-> pre, polls |-> polls]

\* A faulty variant of Accumulate: the bytes read before are dropped.
AccumulateLastChunk(response, chunk) == chunk

\* `response.extend(chunk)`
Accumulate(response, chunk) == response \o chunk

\* A faulty variant of FrameComplete: a negative response is not taken for
\* a response.
FrameCompleteUnlessNegative(response) ==
    /\ Len(response) >= 1
    /\ Len(response) >= response[1]
    /\ ~(Len(response) >= 5 /\ response[5] = 127)

\* `len(response) >= 1` and `len(response) >= expected_length`, where
\* expected_length = response[0].
FrameComplete(response) == Len(response) >= 1 /\ Len(response) >= response[1]

RECURSIVE PollLoop(_, _, _, _)
\* The `while (time.time() - start_time) < timeout` loop of one attempt.
\* kind: "frame" (a complete response), "timeout", "exc".
PollLoop(polls, i, response, log) ==
    IF i > Len(polls)
    THEN [kind |-> "timeout", response |-> response, log |-> log]
    ELSE LET p == polls[i] IN
         IF p.err
         THEN [kind |-> "exc", response |-> response,
               log |-> Append(log, Ev("read_err", <<>>))]
         ELSE IF p.data = <<>>
         THEN PollLoop(polls, i + 1, response, log)
         ELSE LET r == Accumulate(response, p.data)
                  l == Append(log, Ev("read", p.data))
              IN  IF FrameComplete(r)
                  THEN [kind |-> "frame", response |-> r, log |-> l]
                  ELSE PollLoop(polls, i + 1, r, l)

\* A faulty variant of SendFrame: the frame is written before the input
\* buffer is cleared.
SendFrameWriteFirst(command) == <<Ev("write", command), Ev("reset", <<>>)>>

\* `self.ser.reset_input_buffer()` then `self.ser.write(command)`, neither
\* raising: what is done to the channel, in order.
SendFrame(command) == <<Ev("reset", <<>>), Ev("write", command)>>

\* The body of the try block of one attempt.
\* kind: "frame", "sent" (expect_response false), "timeout", "exc".
RunAttempt(att, command, expect_response, log) ==
    IF att.pre = "reset_err"
    THEN [kind |-> "exc", response |-> <<>>,
          log |-> Append(log, Ev("reset_err", <<>>))]
    ELSE IF att.pre = "write_err"
    THEN [kind |-> "exc", response |-> <<>>,
          log |-> log \o <<Ev("reset", <<>>), Ev("write_err", command)>>]
    ELSE LET l == log \o SendFrame(command) IN
         IF ~expect_response
         THEN [kind |-> "sent", response |-> <<>>, log |-> l]
         ELSE PollLoop(att.polls, 1, <<>>, l)

\* A faulty variant of AttemptRange: the loop runs one attempt short.
AttemptRangeOneShort(retries) == retries - 1

\* `for attempt in range(retries)`: the number of attempts at most.
AttemptRange(retries) == retries

\* The behaviour of an attempt the script does not describe: silence.
SilentAttempt == Attempt("ok", <<>>)

RECURSIVE AttemptLoop(_, _, _, _, _, _)
\* The for loop of send_and_receive from attempt number `attempt` on.
AttemptLoop(script, attempt, command, retries, expect_response, log) ==
    IF attempt >= AttemptRange(retries)
    THEN [response |-> NoneResp, log |-> log, attempts |-> attempt]
    ELSE LET att == IF attempt + 1 <= Len(script)
                    THEN script[attempt + 1] ELSE SilentAttempt
             a   == RunAttempt(att, command, expect_response, log)
         IN  CASE a.kind = "frame" ->
                    [response |-> a.response, log |-> a.log,
                     attempts |-> attempt + 1]
               [] a.kind = "sent" ->
                    [response |-> NoneResp, log |-> a.log,
                     attempts |-> attempt + 1]
               [] a.kind = "timeout" ->
                    IF attempt < retries - 1
                    THEN AttemptLoop(script, attempt + 1, command, retries,
                                     expect_response, a.log)
                    ELSE [response |-> NoneResp, log |-> a.log,
                          attempts |-> attempt + 1]
               [] a.kind = "exc" ->
                    IF attempt >= retries - 1
                    THEN [response |-> NoneResp, log |-> a.log,
                          attempts |-> attempt + 1]
                    ELSE AttemptLoop(script, attempt + 1, command, retries,
                                     expect_response, a.log)

\* send_and_receive(command, timeout, retries, expect_response) on a client
\* whose serial handle is s, against a channel that behaves as `script`.
send_and_receive(s, command, retries, expect_response, script) ==
    IF s # "open"
    THEN [response |-> NoneResp, log |-> <<>>, attempts |-> 0]
    ELSE AttemptLoop(script, 0, command, retries, expect_response, <<>>)

---------------------------------------------------------------------------
(* What a call returns or raises *)

\* out: "True", "False", "None", "bytes", "str", or the exception raised;
\* data: the bytes or string returned; err: the translated error reported.
Ret(out, data, err) == [out |-> out, data |-> data, err |-> err]

Raise(exc) == Ret(exc, <<>>, "")

\* The `elif response[4] == 0x7F and response[5] == <service>: ... else: ...`
\* tail every service ends with, for a response of at least 5 bytes:
\* the NRC response[6] is translated when the service id matches; both
\* branches return the service's failure value.
NegativeResponseBranch(r, service, failure) ==
    IF At(r, 4) = 127
    THEN IF ~HasIndex(r, 5) THEN Raise("IndexError")
         ELSE IF At(r, 5) = service
         THEN IF ~HasIndex(r, 6) THEN Raise("IndexError")
              ELSE Ret(failure, <<>>, translate_error_code(At(r, 6)))
         ELSE Ret(failure, <<>>, "")
    ELSE Ret(failure, <<>>, "")

\* The outcome of a method: what it returned, the state it left, its channel log.
Outcome(r, st, log) == [ret |-> r, state |-> st, log |-> log]

---------------------------------------------------------------------------
(* start_diagnostic_session *)

\* A faulty variant of StartSessionAccepted: the service byte is not checked.
StartSessionAcceptedAnyService(r) == r # NoneResp /\ Len(r) >= 5

\* `response and len(response) >= 5 and response[4] == 0x50`
StartSessionAccepted(r) == r # NoneResp /\ Len(r) >= 5 /\ At(r, 4) = 80

\* A faulty variant of StartSessionState: a refused session falls back to
\* CONNECTED.
StartSessionStateFallsBack(st, r) ==
    IF r # NoneResp /\ Len(r) >= 5 /\ At(r, 4) = 80
    THEN "SESSION_STARTED" ELSE "CONNECTED"

\* A faulty variant of StartSessionState: no response resets the state.
StartSessionStateResets(st, r) ==
    IF r # NoneResp /\ Len(r) >= 5 /\ At(r, 4) = 80 THEN "SESSION_STARTED"
    ELSE IF r = NoneResp THEN "DISCONNECTED" ELSE st

\* The state start_diagnostic_session leaves, from state st, on response r.
StartSessionState(st, r) ==
    IF StartSessionAccepted(r) THEN "SESSION_STARTED" ELSE st

start_diagnostic_session(st, s, script) ==
    IF st = "DISCONNECTED"
    THEN Outcome(Ret("False", <<>>, ""), st, <<>>)
    ELSE LET sr == send_and_receive(s, StartSessionCommand, DefaultRetries,
                                    TRUE, script)
         IN  Outcome(Ret(IF StartSessionAccepted(sr.response)
                         THEN "True" ELSE "False", <<>>, ""),
                     StartSessionState(st, sr.response), sr.log)

---------------------------------------------------------------------------
(* request_security_access *)

\* Lines 214-231: the key has been sent, kr is the response to it; the
\* state is SECURITY_REQUESTED unless the key is accepted.
KeyStage(kr, level, log) ==
    IF kr = NoneResp
    THEN Outcome(Ret("False", <<>>, ""), "SECURITY_REQUESTED", log)
    ELSE IF ~HasIndex(kr, 4)
    THEN Outcome(Raise("IndexError"), "SECURITY_REQUESTED", log)
    ELSE IF At(kr, 4) = 103
    THEN IF ~HasIndex(kr, 5)
         THEN Outcome(Raise("IndexError"), "SECURITY_REQUESTED", log)
         ELSE IF At(kr, 5) = level + 1
         THEN Outcome(Ret("True", <<>>, ""), "SECURITY_GRANTED", log)
         ELSE Outcome(Ret("False", <<>>, ""), "SECURITY_REQUESTED", log)
    ELSE Outcome(NegativeResponseBranch(kr, 39, "False"),
                 "SECURITY_REQUESTED", log)

\* Lines 175-239: the body after the state check.
SecurityAccessBody(st, s, level, seedScript, keyScript) ==
    LET sr == send_and_receive(s, format_security_access_request(level),
                               DefaultRetries, TRUE, seedScript)
        r  == sr.response
    IN  IF r = NoneResp \/ Len(r) < 7
        THEN Outcome(Ret("False", <<>>, ""), st, sr.log)
        ELSE IF At(r, 4) = 103 /\ At(r, 5) = level
        THEN IF ~HasIndex(r, 7)
             THEN Outcome(Raise("IndexError"), st, sr.log)
             ELSE LET seed == At(r, 6) * 256 + At(r, 7) IN
                  IF seed = 0
                  THEN Outcome(Ret("True", <<>>, ""), "SECURITY_GRANTED", sr.log)
                  ELSE LET key == calculate_key(seed, level)
                           kr  == send_and_receive(s,
                                      format_key_response(key, level),
                                      DefaultRetries, TRUE, keyScript)
                       IN  KeyStage(kr.response, level, sr.log \o kr.log)
        ELSE Outcome(NegativeResponseBranch(r, 39, "False"), st, sr.log)

request_security_access(st, s, level, seedScript, keyScript) ==
    LET below == EnumLess(st, "SESSION_STARTED") IN
    IF below = "TypeError" THEN Outcome(Raise("TypeError"), st, <<>>)
    ELSE IF below = "True" THEN Outcome(Raise("RuntimeError"), st, <<>>)
    ELSE SecurityAccessBody(st, s, level, seedScript, keyScript)

---------------------------------------------------------------------------
(* send_keep_alive *)

send_keep_alive(st, s, script) ==
    LET below == EnumLess(st, "SESSION_STARTED") IN
    IF below = "TypeError" THEN Outcome(Raise("TypeError"), st, <<>>)
    ELSE IF below = "True" THEN Outcome(Ret("False", <<>>, ""), st, <<>>)
    ELSE LET sr == send_and_receive(s, KeepAliveCommand, DefaultRetries,
                                    FALSE, script)
             r  == sr.response
         IN  Outcome(Ret(IF r # NoneResp /\ Len(r) >= 5 /\ At(r, 4) = 126
                         THEN "True" ELSE "False", <<>>, ""), st, sr.log)

---------------------------------------------------------------------------
(* read_vin, read_data_by_identifier, write_data_by_identifier,
   execute_routine, ecu_reset *)

\* `b >= 32 and b <= 126`
IsAsciiText(b) == b >= 32 /\ b <= 126

\* response[6:23]
VinBytes(r) == IF Len(r) <= 6 THEN <<>>
               ELSE SubSeq(r, 7, IF Len(r) < 23 THEN Len(r) ELSE 23)

\* Lines 390-418 of read_vin, on the response r.
ReadVinResult(r) ==
    IF r = NoneResp \/ Len(r) < 6 THEN Ret("None", <<>>, "")
    ELSE IF At(r, 4) = 98 /\ At(r, 5) = 144
    THEN LET vin == SelectSeq(VinBytes(r), IsAsciiText) IN
         IF Len(vin) = 17 THEN Ret("str", vin, "") ELSE Ret("None", <<>>, "")
    ELSE NegativeResponseBranch(r, 34, "None")

\* Lines 444-463 of read_data_by_identifier, on the response r.
ReadDataResult(r, identifier) ==
    IF r = NoneResp \/ Len(r) < 6 THEN Ret("None", <<>>, "")
    ELSE IF At(r, 4) = 98 /\ At(r, 5) = (identifier \div 256) % 256
    THEN IF ~HasIndex(r, 6) THEN Raise("IndexError")
         ELSE IF At(r, 6) = identifier % 256
         THEN Ret("bytes", SliceFrom(r, 7), "")
         ELSE Ret("None", <<>>, "")
    ELSE NegativeResponseBranch(r, 34, "None")

\* Lines 497-514 of write_data_by_identifier, on the response r.
WriteDataResult(r, identifier) ==
    IF r = NoneResp \/ Len(r) < 6 THEN Ret("False", <<>>, "")
    ELSE IF At(r, 4) = 110 /\ At(r, 5) = (identifier \div 256) % 256
    THEN IF ~HasIndex(r, 6) THEN Raise("IndexError")
         ELSE IF At(r, 6) = identifier % 256
         THEN Ret("True", <<>>, "")
         ELSE Ret("False", <<>>, "")
    ELSE NegativeResponseBranch(r, 46, "False")

\* Lines 553-572 of execute_routine, on the response r.
RoutineResult(r) ==
    IF r = NoneResp \/ Len(r) < 7 THEN Ret("None", <<>>, "")
    ELSE IF At(r, 4) = 113 /\ At(r, 5) = 1
    THEN Ret("bytes", SliceFrom(r, 8), "")
    ELSE NegativeResponseBranch(r, 49, "None")

\* A faulty variant of EcuResetResult: the reset type of a positive
\* response is not compared with the one requested.
EcuResetResultAnyType(r, reset_type) ==
    IF r = NoneResp \/ Len(r) < 5 THEN Ret("False", <<>>, "")
    ELSE IF At(r, 4) = 81
    THEN IF ~HasIndex(r, 5) THEN Raise("IndexError")
         ELSE Ret("True", <<>>, "")
    ELSE NegativeResponseBranch(r, 17, "False")

\* Lines 595-612 of ecu_reset, on the response r.
EcuResetResult(r, reset_type) ==
    IF r = NoneResp \/ Len(r) < 5 THEN Ret("False", <<>>, "")
    ELSE IF At(r, 4) = 81
    THEN IF ~HasIndex(r, 5) THEN Raise("IndexError")
         ELSE IF At(r, 5) = reset_type
         THEN Ret("True", <<>>, "")
         ELSE Ret("False", <<>>, "")
    ELSE NegativeResponseBranch(r, 17, "False")

\* The `if self.state < DiagnosticState.SECURITY_GRANTED: return <failure>`
\* check that opens read_vin, read_data_by_identifier,
\* write_data_by_identifier and execute_routine: "raise" (the comparison
\* raises TypeError), "fail" (return the failure value) or "pass".
SecurityCheck(st) ==
    LET below == EnumLess(st, "SECURITY_GRANTED") IN
    IF below = "TypeError" THEN "raise"
    ELSE IF below = "True" THEN "fail" ELSE "pass"

read_vin(st, s, script) ==
    LET chk == SecurityCheck(st) IN
    IF chk = "raise" THEN Outcome(Raise("TypeError"), st, <<>>)
    ELSE IF chk = "fail" THEN Outcome(Ret("None", <<>>, ""), st, <<>>)
    ELSE LET sr == send_and_receive(s, ReadVinCommand, DefaultRetries,
                                    TRUE, script)
         IN  Outcome(ReadVinResult(sr.response), st, sr.log)

read_data_by_identifier(st, s, identifier, script) ==
    LET chk == SecurityCheck(st) IN
    IF chk = "raise" THEN Outcome(Raise("TypeError"), st, <<>>)
    ELSE IF chk = "fail" THEN Outcome(Ret("None", <<>>, ""), st, <<>>)
    ELSE LET sr == send_and_receive(s, ReadCommand(identifier),
                                    DefaultRetries, TRUE, script)
         IN  Outcome(ReadDataResult(sr.response, identifier), st, sr.log)

write_data_by_identifier(st, s, identifier, data, script) ==
    LET chk == SecurityCheck(st) IN
    IF chk = "raise" THEN Outcome(Raise("TypeError"), st, <<>>)
    ELSE IF chk = "fail" THEN Outcome(Ret("False", <<>>, ""), st, <<>>)
    ELSE LET sr == send_and_receive(s, WriteCommand(identifier, data),
                                    DefaultRetries, TRUE, script)
         IN  Outcome(WriteDataResult(sr.response, identifier), st, sr.log)

execute_routine(st, s, routine_id, params, script) ==
    LET chk == SecurityCheck(st) IN
    IF chk = "raise" THEN Outcome(Raise("TypeError"), st, <<>>)
    ELSE IF chk = "fail" THEN Outcome(Ret("None", <<>>, ""), st, <<>>)
    ELSE LET sr == send_and_receive(s, RoutineCommand(routine_id, params),
                                    DefaultRetries, TRUE, script)
         IN  Outcome(RoutineResult(sr.response), st, sr.log)

ecu_reset(st, s, reset_type, script) ==
    LET sr == send_and_receive(s, ResetCommand(reset_type), DefaultRetries,
                               TRUE, script)
    IN  Outcome(EcuResetResult(sr.response, reset_type), st, sr.log)

---------------------------------------------------------------------------
(* connect and disconnect of the session client *)

\* connect(), with ser.open() succeeding on attempt okAt (0: on none of the
\* max_retries attempts).  An open handle is closed first; each attempt
\* makes a fresh serial.Serial() and opens it.
connect(st, s, okAt) ==
    LET closing == IF s = "open" THEN <<Ev("close", <<>>)>> ELSE <<>>
        failed  == IF okAt = 0 THEN ConnectRetries ELSE okAt - 1
        opens   == [i \in 1..failed |-> Ev("open_err", <<>>)]
                   \o (IF okAt = 0 THEN <<>> ELSE <<Ev("open", <<>>)>>)
    IN  [ret   |-> Ret(IF okAt = 0 THEN "False" ELSE "True", <<>>, ""),
         state |-> IF okAt = 0 THEN st ELSE "CONNECTED",
         ser   |-> IF okAt = 0 THEN "closed" ELSE "open",
         log   |-> closing \o opens]

\* disconnect()
disconnect(st, s) ==
    IF s = "open"
    THEN [ret |-> Ret("None", <<>>, ""), state |-> "DISCONNECTED",
          ser |-> "closed", log |-> <<Ev("close", <<>>)>>]
    ELSE [ret |-> Ret("None", <<>>, ""), state |-> st, ser |-> s, log |-> <<>>]

---------------------------------------------------------------------------
(* connect and disconnect of the download client (tech2_communication.py) *)

\* connect(): os.open raises ("error"), returns descriptor 0 ("fd0", which
\* `if self.port:` takes for failure) or a positive descriptor ("fd").
t2_connect(p, c, opened) ==
    CASE opened = "error" ->
            [ret |-> "False", port |-> p, is_connected |-> c,
             log |-> <<Ev("open_err", <<>>)>>]
      [] opened = "fd0" ->
            [ret |-> "False", port |-> "fd0", is_connected |-> c,
             log |-> <<Ev("open", <<>>)>>]
      [] opened = "fd" ->
            [ret |-> "True", port |-> "fd", is_connected |-> TRUE,
             log |-> <<Ev("open", <<>>)>>]

\* send_command(command): os.write writes all of it ("ok"), part of it
\* ("short") or raises ("err"); the caller has checked the connection.
t2_send_command(command, written) ==
    CASE written = "ok"    -> [ret |-> TRUE,  log |-> <<Ev("write", command)>>]
      [] written = "short" -> [ret |-> FALSE,
                               log |-> <<Ev("write", SubSeq(command, 1, 1))>>]
      [] written = "err"   -> [ret |-> FALSE,
                               log |-> <<Ev("write_err", command)>>]

\* disconnect(): sends the restart command, then closes the descriptor;
\* os.close raising leaves the fields as they were.
t2_disconnect(p, c, written, closed) ==
    IF p # "None" /\ c
    THEN LET sent == t2_send_command(RESTART_COMMAND, written) IN
         IF closed
         THEN [ret |-> "True", port |-> "None", is_connected |-> FALSE,
               log |-> sent.log \o <<Ev("close", <<>>)>>]
         ELSE [ret |-> "False", port |-> p, is_connected |-> c,
               log |-> sent.log \o <<Ev("close_err", <<>>)>>]
    ELSE [ret |-> "False", port |-> p, is_connected |-> c, log |-> <<>>]

---------------------------------------------------------------------------
(* The inputs the model draws *)

\* Responses the device sends: [length, 0x7E, 0x00, dataLength, service, ...].
DeviceFrames ==
    { <<6, 126, 0, 2, 80, 2>>,              \* session started
      <<5, 126, 0, 1, 80>>,                 \* session started, 5 bytes
      <<7, 126, 0, 3, 127, 16, 18>>,        \* negative to 0x10, NRC 0x12
      <<7, 126, 0, 3, 127, 17, 34>>,        \* negative to 0x11, NRC 0x22
      <<7, 126, 0, 3, 127, 39, 53>>,        \* negative to 0x27, NRC 0x35
      <<7, 126, 0, 3, 127, 34, 200>>,       \* negative to 0x22, unknown NRC
      <<6, 126, 0, 2, 127, 17>>,            \* negative, no NRC byte
      <<5, 126, 0, 1, 127>>,                \* negative, service byte only
      <<6, 126, 0, 2, 81, 1>>,              \* reset type 1 accepted
      <<5, 126, 0, 1, 81>>,                 \* reset accepted, no type byte
      <<8, 126, 0, 4, 103, 253, 0, 0>>,     \* seed 0 for level 0xFD
      <<8, 126, 0, 4, 103, 253, 18, 52>>,   \* seed 0x1234 for level 0xFD
      <<6, 126, 0, 2, 103, 254>>,           \* key accepted for level 0xFD
      <<5, 126, 0, 1, 126>>,                \* tester present acknowledged
      <<8, 126, 0, 4, 98, 0, 144, 65>>,     \* identifier 0x0090 read
      <<4, 126, 0, 0>>,                     \* a frame with no service byte
      <<1>> }                               \* a one-byte frame

\* Attempts that end without a complete frame.
FailedAttempts ==
    { Attempt("reset_err", <<>>),                       \* reset raises
      Attempt("write_err", <<>>),                       \* write raises
      Attempt("ok", <<>>),                              \* silence
      Attempt("ok", <<Poll(TRUE, <<>>)>>),              \* read raises
      Attempt("ok", <<Poll(FALSE, <<7, 126>>)>>) }      \* partial frame

\* The frame f arrives at once.
Whole(f) == Attempt("ok", <<Poll(FALSE, f)>>)

\* The frame f arrives in two parts, with an empty poll between them.
Split(f, k) ==
    Attempt("ok", <<Poll(FALSE, SubSeq(f, 1, k)), Poll(FALSE, <<>>),
                    Poll(FALSE, SubSeq(f, k + 1, Len(f)))>>)

RECURSIVE Parts(_)
\* Every way of cutting the bytes f into consecutive non-empty parts.
Parts(f) ==
    IF f = <<>> THEN {<<>>}
    ELSE UNION { { <<SubSeq(f, 1, k)>> \o rest :
                        rest \in Parts(SubSeq(f, k + 1, Len(f))) }
                 : k \in 1..Len(f) }

\* The frame f arrives in the parts ps, one part at each pass of the
\* polling loop.
InParts(ps) == Attempt("ok", [i \in DOMAIN ps |-> Poll(FALSE, ps[i])])

\* The attempts in which the session-started frame arrives, cut in every way.
SplitArrivals == { InParts(ps) : ps \in Parts(<<6, 126, 0, 2, 80, 2>>) }

\* Attempts that end with a complete frame.
CompleteAttempts ==
    { Whole(f) : f \in DeviceFrames }
    \cup { Split(<<6, 126, 0, 2, 80, 2>>, 1),
           Split(<<7, 126, 0, 3, 127, 17, 34>>, 5),
           Whole(<<6, 126, 0, 2, 80, 2, 6, 126>>) }     \* a frame and more

\* The channel scripts of a service call (retries = 3): every attempt
\* fails, the first attempt completes, or the second does (with a positive
\* or a negative response).
ServiceScripts ==
    [1..DefaultRetries -> FailedAttempts]
    \cup { <<a>> : a \in CompleteAttempts }
    \cup { <<f, Whole(<<6, 126, 0, 2, 80, 2>>)>> : f \in FailedAttempts }
    \cup { <<f, Whole(<<7, 126, 0, 3, 127, 17, 34>>)>> : f \in FailedAttempts }

\* The channel scripts of the calls behind the security check.
ProbeScripts ==
    { <<Whole(<<8, 126, 0, 4, 98, 0, 144, 65>>)>>,
      <<Whole(<<7, 126, 0, 3, 127, 34, 200>>)>>,
      <<Whole(<<5, 126, 0, 1, 126>>)>>,
      <<>> }

SeedScripts ==
    { <<Whole(<<8, 126, 0, 4, 103, 253, 0, 0>>)>>,
      <<Whole(<<8, 126, 0, 4, 103, 253, 18, 52>>)>>,
      <<Whole(<<7, 126, 0, 3, 103, 253, 18>>)>>,
      <<Whole(<<7, 126, 0, 3, 127, 39, 53>>)>>,
      <<>> }

KeyScripts ==
    { <<Whole(<<6, 126, 0, 2, 103, 254>>)>>,
      <<Whole(<<7, 126, 0, 3, 127, 39, 53>>)>>,
      <<Whole(<<1>>)>>,
      <<>> }

\* The arrivals that follow failed attempts in a direct send_and_receive call.
DirectArrivals ==
    { Whole(<<6, 126, 0, 2, 80, 2>>),
      Split(<<6, 126, 0, 2, 80, 2>>, 1),
      Whole(<<6, 126, 0, 2, 80, 2, 6, 126>>),          \* a frame and more
      Whole(<<1>>) }

\* The channel scripts of a direct send_and_receive call with the given
\* retries: every attempt fails, or some fail and the next one completes,
\* or the first one brings the frame in parts.
Scripts(retries) ==
    [1..retries -> FailedAttempts]
    \cup UNION { { pre \o <<a>> : pre \in [1..k -> FailedAttempts],
                                  a \in DirectArrivals }
                 : k \in 0..(retries - 1) }
    \cup (IF retries >= 1 THEN { <<a>> : a \in SplitArrivals } ELSE {})

Identifiers == {144, 61840}         \* 0x0090, 0xF190
Payloads    == {<<>>, <<1, 2>>}
ResetTypes  == {1, 3}

\* The arguments of a call, as recorded in `call`.
Args(n, data, flag) == [n |-> n, data |-> data, flag |-> flag]

NoArgs == Args(0, <<>>, FALSE)

\* The record of a call about to run.
Call(op, args, plan) ==
    [op |-> op, pre |-> state, ser |-> ser, port |-> port,
     conn |-> is_connected, args |-> args, plan |-> plan]

\* No call is recorded: the caller is about to make its next call.
IdleCall ==
    [op |-> "idle", pre |-> "DISCONNECTED", ser |-> "None", port |-> "None",
     conn |-> FALSE, args |-> NoArgs, plan |-> <<>>]

\* No send_and_receive call is being followed.
NoRun ==
    [pc |-> "idle", retries |-> 0, expect_response |-> FALSE, attempt |-> 0,
     tries |-> 0, writes |-> 0, elapsed |-> 0, response |-> <<>>,
     window |-> "none", pending |-> <<>>, result |-> "none"]

\* What a pure function gives: a key, a frame, or the exception it raises.
Out(kind, key, frame) == [kind |-> kind, key |-> key, frame |-> frame]

NoOut == Out("none", 0, <<>>)

\* No pure function has been given inputs.
NoCalc == [fn |-> "none", seed |-> 0, level |-> 0, data |-> <<>>, out |-> NoOut]

\* No download procedure is running.
NoDl ==
    [impl |-> "none", pc |-> "idle", seed_only |-> FALSE, i |-> 0,
     entered |-> FALSE, data_buffers |-> <<>>, result |-> "none",
     image |-> <<>>, log |-> <<>>]

\* A field of what an extraction function returns: missing from the
\* dictionary, None, a string (its character codes) or an integer.
Absent == [k |-> "absent", s |-> <<>>, n |-> 0]
PyNone == [k |-> "None", s |-> <<>>, n |-> 0]
Str(s) == [k |-> "str", s |-> s, n |-> 0]
Num(n) == [k |-> "int", s |-> <<>>, n |-> n]

\* What an extraction function gives: a dictionary ("dict"), a single value
\* ("value", in vin or seed), None, or the exception it raises.
Parsed(kind, vin, seed, key) ==
    [kind |-> kind, vin |-> vin, seed |-> seed, key |-> key]

NoParsed == Parsed("none", Absent, Absent, Absent)

\* No extraction function has been given an image.
NoPx == [fn |-> "none", data |-> <<>>, data_type |-> "all", out |-> NoParsed]

\* Time is not followed: now is the clock in seconds, last_activity_time the
\* attribute (0 from __init__), gap the idle time the latest call of
\* maintain_session computed (-1: none yet).
NoClk == [now |-> 0, last_activity_time |-> 0, gap |-> -1]

---------------------------------------------------------------------------
(* Initial state and actions *)

Init ==
    /\ state = "DISCONNECTED"
    /\ ser = "None"
    /\ port = "None"
    /\ is_connected = FALSE
    /\ call = IdleCall
    /\ ret = Ret("None", <<>>, "")
    /\ chanLog = <<>>
    /\ run = NoRun
    /\ calc = NoCalc
    /\ dl = NoDl
    /\ px = NoPx
    /\ clk = NoClk

\* A method of the session client runs, with outcome o.
Finish(op, args, plan, o) ==
    /\ call.op = "idle"
    /\ call' = Call(op, args, plan)
    /\ ret' = o.ret
    /\ state' = o.state
    /\ chanLog' = o.log
    /\ UNCHANGED <<ser, port, is_connected, run, calc, dl, px, clk>>

Connect ==
    \E okAt \in 0..ConnectRetries :
        LET o == connect(state, ser, okAt) IN
        /\ call.op = "idle"
        /\ call' = Call("connect", Args(okAt, <<>>, FALSE), <<>>)
        /\ ret' = o.ret
        /\ state' = o.state
        /\ ser' = o.ser
        /\ chanLog' = o.log
        /\ UNCHANGED <<port, is_connected, run, calc, dl, px, clk>>

Disconnect ==
    LET o == disconnect(state, ser) IN
    /\ call.op = "idle"
    /\ call' = Call("disconnect", NoArgs, <<>>)
    /\ ret' = o.ret
    /\ state' = o.state
    /\ ser' = o.ser
    /\ chanLog' = o.log
    /\ UNCHANGED <<port, is_connected, run, calc, dl, px, clk>>

StartDiagnosticSession ==
    \E script \in ServiceScripts :
        Finish("start_diagnostic_session", NoArgs, <<script>>,
               start_diagnostic_session(state, ser, script))

RequestSecurityAccess ==
    \E level \in SecurityLevel, seedScript \in SeedScripts,
       keyScript \in KeyScripts :
        Finish("request_security_access", Args(level, <<>>, FALSE),
               <<seedScript, keyScript>>,
               request_security_access(state, ser, level, seedScript, keyScript))

SendKeepAlive ==
    \E script \in ProbeScripts :
        Finish("send_keep_alive", NoArgs, <<script>>,
               send_keep_alive(state, ser, script))

ReadVin ==
    \E script \in ProbeScripts :
        Finish("read_vin", NoArgs, <<script>>, read_vin(state, ser, script))

ReadDataByIdentifier ==
    \E identifier \in Identifiers, script \in ProbeScripts :
        Finish("read_data_by_identifier", Args(identifier, <<>>, FALSE),
               <<script>>,
               read_data_by_identifier(state, ser, identifier, script))

WriteDataByIdentifier ==
    \E identifier \in Identifiers, data \in Payloads, script \in ProbeScripts :
        Finish("write_data_by_identifier", Args(identifier, data, FALSE),
               <<script>>,
               write_data_by_identifier(state, ser, identifier, data, script))

ExecuteRoutine ==
    \E routine_id \in Identifiers, params \in Payloads, script \in ProbeScripts :
        Finish("execute_routine", Args(routine_id, params, FALSE), <<script>>,
               execute_routine(state, ser, routine_id, params, script))

EcuReset ==
    \E reset_type \in ResetTypes, script \in ServiceScripts :
        Finish("ecu_reset", Args(reset_type, <<>>, FALSE), <<script>>,
               ecu_reset(state, ser, reset_type, script))

\* A direct call of the public method send_and_receive.
SendAndReceive ==
    \E retries \in 0..MaxRetries, expect_response \in BOOLEAN :
      \E script \in Scripts(retries) :
        LET sr == send_and_receive(ser, StartSessionCommand, retries,
                                   expect_response, script)
        IN  Finish("send_and_receive", Args(retries, <<>>, expect_response),
                   <<script>>,
                   Outcome(Ret(IF sr.response = NoneResp THEN "None" ELSE "bytes",
                               sr.response, ""), state, sr.log))

T2Connect ==
    \E opened \in {"error", "fd0", "fd"} :
        LET o == t2_connect(port, is_connected, opened) IN
        /\ call.op = "idle"
        /\ call' = Call("t2_connect", NoArgs, <<>>)
        /\ ret' = Ret(o.ret, <<>>, "")
        /\ port' = o.port
        /\ is_connected' = o.is_connected
        /\ chanLog' = o.log
        /\ UNCHANGED <<state, ser, run, calc, dl, px, clk>>

T2Disconnect ==
    \E written \in {"ok", "short", "err"}, closed \in BOOLEAN :
        LET o == t2_disconnect(port, is_connected, written, closed) IN
        /\ call.op = "idle"
        /\ call' = Call("t2_disconnect", NoArgs, <<>>)
        /\ ret' = Ret(o.ret, <<>>, "")
        /\ port' = o.port
        /\ is_connected' = o.is_connected
        /\ chanLog' = o.log
        /\ UNCHANGED <<state, ser, run, calc, dl, px, clk>>

\* The caller has taken the result of its call and goes on to the next one.
Return ==
    /\ call.op # "idle"
    /\ call' = IdleCall
    /\ ret' = Ret("None", <<>>, "")
    /\ chanLog' = <<>>
    /\ UNCHANGED <<state, ser, port, is_connected, run, calc, dl, px, clk>>

Next ==
    \/ Connect
    \/ Disconnect
    \/ StartDiagnosticSession
    \/ RequestSecurityAccess
    \/ SendKeepAlive
    \/ ReadVin
    \/ ReadDataByIdentifier
    \/ WriteDataByIdentifier
    \/ ExecuteRoutine
    \/ EcuReset
    \/ SendAndReceive
    \/ T2Connect
    \/ T2Disconnect
    \/ Return

Spec == Init /\ [][Next]_vars

---------------------------------------------------------------------------
(* send_and_receive, statement by statement (SendSpec) *)

\* The passes of the polling loop that fit in one timeout window.
MaxPolls == 3

\* What the device does in the window that follows a write: nothing, an
\* error at in_waiting/read, or bytes to deliver.
Windows == {"silent", "error", "bytes"}

\* The bytes the device delivers in a window, in parts of its choosing: a
\* complete frame, a frame whose declared length is never reached, a
\* one-byte frame.
Deliveries == { <<6, 126, 0, 2, 80, 2>>, <<7, 126>>, <<1>> }

\* A faulty variant of Tick: the clock stands still.
TickStalled(elapsed) == elapsed

\* `time.sleep(0.01)`: when the condition of the while loop is evaluated
\* again, the clock has advanced.
Tick(elapsed) == elapsed + 1

\* The end of an attempt without a response, by timeout (lines 710-715) or
\* by exception (lines 717-720): the last attempt returns None, any other
\* goes on to the next iteration of the for loop.
AttemptOver(r) ==
    IF r.attempt >= r.retries - 1
    THEN [r EXCEPT !.pc = "done", !.result = "None"]
    ELSE [r EXCEPT !.pc = "loop", !.attempt = @ + 1]

SendInit ==
    /\ state = "CONNECTED"
    /\ ser \in {"open", "closed"}
    /\ port = "None"
    /\ is_connected = FALSE
    /\ call = IdleCall
    /\ ret = Ret("None", <<>>, "")
    /\ chanLog = <<>>
    /\ run = NoRun
    /\ calc = NoCalc
    /\ dl = NoDl
    /\ px = NoPx
    /\ clk = NoClk

\* The call, and the check of the port (lines 675-677).
SrCall ==
    /\ run.pc = "idle"
    /\ \E retries \in 0..MaxRetries, expect_response \in BOOLEAN :
          run' = IF ser # "open"
                 THEN [NoRun EXCEPT !.pc = "done", !.retries = retries,
                                    !.expect_response = expect_response,
                                    !.result = "None"]
                 ELSE [NoRun EXCEPT !.pc = "loop", !.retries = retries,
                                    !.expect_response = expect_response]
    /\ UNCHANGED <<state, ser, port, is_connected, call, ret, chanLog, calc, dl, px, clk>>

\* `for attempt in range(retries)`: the next iteration, or the end of the
\* loop and `return None` (line 722).
SrLoop ==
    /\ run.pc = "loop"
    /\ run' = IF run.attempt >= AttemptRange(run.retries)
              THEN [run EXCEPT !.pc = "done", !.result = "None"]
              ELSE [run EXCEPT !.pc = "try"]
    /\ UNCHANGED <<state, ser, port, is_connected, call, ret, chanLog, calc, dl, px, clk>>

\* Lines 682-693: reset_input_buffer and write; either may raise.
SrSend ==
    /\ run.pc = "try"
    /\ \E pre \in {"ok", "reset_err", "write_err"}, w \in Windows,
          d \in Deliveries :
          LET r == [run EXCEPT !.tries = @ + 1] IN
          run' = IF pre # "ok" THEN AttemptOver(r)
                 ELSE IF ~run.expect_response
                 THEN [r EXCEPT !.writes = @ + 1, !.pc = "done",
                                !.result = "None"]
                 ELSE [r EXCEPT !.writes = @ + 1, !.pc = "poll",
                                !.elapsed = 0, !.response = <<>>,
                                !.window = w,
                                !.pending = IF w = "bytes" THEN d ELSE <<>>]
    /\ UNCHANGED <<state, ser, port, is_connected, call, ret, chanLog, calc, dl, px, clk>>

\* A pass of the while loop with nothing waiting (line 696 false).
SrPollNothing ==
    /\ run.pc = "poll"
    /\ run.elapsed < MaxPolls
    /\ run.window \in {"silent", "bytes"}
    /\ run' = [run EXCEPT !.elapsed = Tick(@)]
    /\ UNCHANGED <<state, ser, port, is_connected, call, ret, chanLog, calc, dl, px, clk>>

\* A pass of the while loop that reads the bytes waiting (lines 696-705).
SrPollRead ==
    /\ run.pc = "poll"
    /\ run.elapsed < MaxPolls
    /\ run.window = "bytes"
    /\ \E k \in 1..Len(run.pending) :
          LET r == Accumulate(run.response, SubSeq(run.pending, 1, k)) IN
          run' = IF FrameComplete(r)
                 THEN [run EXCEPT !.pc = "done", !.result = "bytes",
                                  !.response = r,
                                  !.pending = SubSeq(@, k + 1, Len(@))]
                 ELSE [run EXCEPT !.response = r,
                                  !.pending = SubSeq(@, k + 1, Len(@)),
                                  !.elapsed = Tick(@)]
    /\ UNCHANGED <<state, ser, port, is_connected, call, ret, chanLog, calc, dl, px, clk>>

\* A pass of the while loop in which in_waiting or read raises.
SrPollError ==
    /\ run.pc = "poll"
    /\ run.elapsed < MaxPolls
    /\ run.window = "error"
    /\ run' = AttemptOver(run)
    /\ UNCHANGED <<state, ser, port, is_connected, call, ret, chanLog, calc, dl, px, clk>>

\* The condition of the while loop is false: the timeout has elapsed.
SrTimeout ==
    /\ run.pc = "poll"
    /\ run.elapsed >= MaxPolls
    /\ run' = AttemptOver(run)
    /\ UNCHANGED <<state, ser, port, is_connected, call, ret, chanLog, calc, dl, px, clk>>

SendNext ==
    \/ SrCall
    \/ SrLoop
    \/ SrSend
    \/ SrPollNothing
    \/ SrPollRead
    \/ SrPollError
    \/ SrTimeout

\* The interpreter keeps executing the call: a step that can be taken is
\* taken.
SendSpec == SendInit /\ [][SendNext]_vars /\ WF_vars(SendNext)

---------------------------------------------------------------------------
(* The command frames, built from drawn arguments (FrameSpec) *)

\* The longest payload of write_data_by_identifier and execute_routine.
MaxPayloadLen == 250

\* A payload of n bytes.
PayloadOf(n) == [i \in 1..n |-> 170]

\* The identifiers, routine ids, reset types and keys drawn.
FrameNumbers == {1, 144, 61840, 65535}

\* bytes([...]) and bytearray([...]): every value must be in range(256),
\* or ValueError is raised.
bytes_of(values) ==
    IF \A i \in DOMAIN values : values[i] \in 0..255
    THEN Out("frame", 0, values)
    ELSE Out("ValueError", 0, <<>>)

FrameInit ==
    /\ state = "DISCONNECTED"
    /\ ser = "None"
    /\ port = "None"
    /\ is_connected = FALSE
    /\ call = IdleCall
    /\ ret = Ret("None", <<>>, "")
    /\ chanLog = <<>>
    /\ run = NoRun
    /\ \E n \in FrameNumbers, level \in SecurityLevel, len \in 0..MaxPayloadLen :
          calc = [fn |-> "input", seed |-> n, level |-> level,
                  data |-> PayloadOf(len), out |-> NoOut]
    /\ dl = NoDl
    /\ px = NoPx
    /\ clk = NoClk

\* The constructor fn has built the frame o from the arguments drawn.
Built(fn, o) ==
    /\ calc.fn = "input"
    /\ calc' = [calc EXCEPT !.fn = fn, !.out = o]
    /\ UNCHANGED <<state, ser, port, is_connected, call, ret, chanLog, run, dl, px, clk>>

BuildStartSession ==
    Built("start_diagnostic_session", bytes_of(StartSessionCommand))

BuildSecurityRequest ==
    Built("format_security_access_request",
          bytes_of(format_security_access_request(calc.level)))

BuildKeyResponse ==
    Built("format_key_response",
          bytes_of(format_key_response(calc.seed, calc.level)))

BuildKeepAlive == Built("send_keep_alive", bytes_of(KeepAliveCommand))

BuildReadVin == Built("read_vin", bytes_of(ReadVinCommand))

BuildRead ==
    Built("read_data_by_identifier", bytes_of(ReadCommand(calc.seed)))

\* bytearray([...]) of the seven header bytes, then command.extend(data).
BuildWrite ==
    Built("write_data_by_identifier",
          bytes_of(WriteCommand(calc.seed, calc.data)))

\* bytearray([...]) of the eight header bytes, then command.extend(params).
BuildRoutine ==
    Built("execute_routine", bytes_of(RoutineCommand(calc.seed, calc.data)))

BuildReset == Built("ecu_reset", bytes_of(ResetCommand(calc.seed % 256)))

FrameNext ==
    \/ BuildStartSession
    \/ BuildSecurityRequest
    \/ BuildKeyResponse
    \/ BuildKeepAlive
    \/ BuildReadVin
    \/ BuildRead
    \/ BuildWrite
    \/ BuildRoutine
    \/ BuildReset

FrameSpec == FrameInit /\ [][FrameNext]_vars

---------------------------------------------------------------------------
(* The key derivations, applied to drawn seeds (KeySpec) *)

\* The largest seed drawn; the seeds start at -1.
MaxSeed == 65537

\* 0xFFFF, the largest 16-bit seed.
SeedLimit == 65535

Seeds == (0 - 1)..MaxSeed

\* rotate_left(val, bits) of trionic8_calculator.py.
rotate_left(val, bits) ==
    LET b == bits % 16
    IN  Or(Mask16(val * Pow2(b)), Mask16(val \div Pow2(16 - b)), 16)

\* A faulty variant of rotate_right: the bits shifted out are lost.
rotate_right_shift_only(val, bits) ==
    LET b == bits % 16 IN Mask16(val \div Pow2(b))

\* rotate_right(val, bits) of trionic8_calculator.py.
rotate_right(val, bits) ==
    LET b == bits % 16
    IN  Or(Mask16(val \div Pow2(b)), Mask16(val * Pow2(16 - b)), 16)

\* swap_bytes_and_add(val, add_value)
swap_bytes_and_add(val, add_value) ==
    LET swapped == Or((val \div 256) % 256, (val % 256) * 256, 16)
    IN  Mask16(swapped + add_value)

\* subtract(val, value)
subtract(val, value) == Mask16(val - value)

\* TRIONIC8_Algorithm.steps
steps ==
    << [op |-> "ror",      arg |-> 7],
       [op |-> "rol",      arg |-> 10],
       [op |-> "swap_add", arg |-> 63706],      \* 0xF8DA
       [op |-> "sub",      arg |-> 16210] >>     \* 0x3F52

\* One step of the loop of compute.
ApplyStep(step, key) ==
    CASE step.op = "ror"      -> rotate_right(key, step.arg)
      [] step.op = "rol"      -> rotate_left(key, step.arg)
      [] step.op = "swap_add" -> swap_bytes_and_add(key, step.arg)
      [] step.op = "sub"      -> subtract(key, step.arg)

RECURSIVE RunSteps(_, _)
\* The loop of compute over the steps i.. of the list.
RunSteps(key, i) ==
    IF i > Len(steps) THEN key ELSE RunSteps(ApplyStep(steps[i], key), i + 1)

\* TRIONIC8_Algorithm.compute of trionic8_calculator.py: the seed is
\* checked first.
compute(seed) ==
    IF seed < 0 \/ seed > SeedLimit
    THEN Out("ValueError", 0, <<>>)
    ELSE Out("key", RunSteps(seed, 1), <<>>)

\* TRIONIC8_Algorithm.compute of src/trionic8_calculator.py: the same
\* steps, and no check of the seed.
src_compute(seed) == Out("key", RunSteps(seed, 1), <<>>)

\* known_pairs of test_with_known_values: seed and expected key.
known_pairs ==
    << <<15238, 15279>>,        \* 0x3B86, 0x3BAF
       <<4660, 35459>>,         \* 0x1234, 0x8A83
       <<43981, 8995>>,         \* 0xABCD, 0x2323
       <<65535, 47495>> >>      \* 0xFFFF, 0xB987

KeyInit ==
    /\ state = "DISCONNECTED"
    /\ ser = "None"
    /\ port = "None"
    /\ is_connected = FALSE
    /\ call = IdleCall
    /\ ret = Ret("None", <<>>, "")
    /\ chanLog = <<>>
    /\ run = NoRun
    /\ \E seed \in Seeds :
          calc = [fn |-> "input", seed |-> seed, level |-> 0, data |-> <<>>,
                  out |-> NoOut]
    /\ dl = NoDl
    /\ px = NoPx
    /\ clk = NoClk

\* algo.compute(seed), trionic8_calculator.py
Compute ==
    /\ calc.fn = "input"
    /\ calc' = [calc EXCEPT !.fn = "compute", !.out = compute(calc.seed)]
    /\ UNCHANGED <<state, ser, port, is_connected, call, ret, chanLog, run, dl, px, clk>>

\* algo.compute(seed), src/trionic8_calculator.py
SrcCompute ==
    /\ calc.fn = "input"
    /\ calc' = [calc EXCEPT !.fn = "src_compute", !.out = src_compute(calc.seed)]
    /\ UNCHANGED <<state, ser, port, is_connected, call, ret, chanLog, run, dl, px, clk>>

\* self.calculate_key(seed, level)
CalculateKey ==
    /\ calc.fn = "input"
    /\ \E level \in SecurityLevel :
          calc' = [calc EXCEPT !.fn = "calculate_key", !.level = level,
                               !.out = Out("key",
                                           calculate_key(calc.seed, level),
                                           <<>>)]
    /\ UNCHANGED <<state, ser, port, is_connected, call, ret, chanLog, run, dl, px, clk>>

KeyNext ==
    \/ Compute
    \/ SrcCompute
    \/ CalculateKey

KeySpec == KeyInit /\ [][KeyNext]_vars

---------------------------------------------------------------------------
(* Reading the record of the last call *)

\* The number of events of the log whose kind is in `kinds`.
CountEv(log, kinds) == Cardinality({i \in DOMAIN log : log[i].ev \in kinds})

\* The frames written, in order.
Written(log) ==
    LET W == SelectSeq(log, LAMBDA e : e.ev = "write")
    IN  [i \in DOMAIN W |-> W[i].d]

\* The number of attempts made: each starts by resetting the input buffer.
AttemptsMade(log) == CountEv(log, {"reset", "reset_err"})

\* The index of the last write of the log (0: none).
LastWrite(log) ==
    LET W == {i \in DOMAIN log : log[i].ev = "write"}
    IN  IF W = {} THEN 0 ELSE CHOOSE i \in W : \A j \in W : j <= i

RECURSIVE ReadFrom(_, _)
\* The bytes read from position i of the log on.
ReadFrom(log, i) ==
    IF i > Len(log) THEN <<>>
    ELSE (IF log[i].ev = "read" THEN log[i].d ELSE <<>>) \o ReadFrom(log, i + 1)

\* The bytes received in answer to the last frame written.
Received(log) == ReadFrom(log, LastWrite(log) + 1)

\* A complete frame by the framing rule.
IsComplete(r) == Len(r) >= 1 /\ Len(r) >= r[1]

\* A complete response whose byte 4 is b.
ResponseWith(r, b) == IsComplete(r) /\ Len(r) >= 5 /\ r[5] = b

\* The response the device gives, on an open channel, when it behaves as `script`.
Answer(script) ==
    send_and_receive("open", <<>>, DefaultRetries, TRUE, script).response

SessionOps ==
    {"connect", "disconnect", "start_diagnostic_session",
     "request_security_access", "send_keep_alive", "read_vin",
     "read_data_by_identifier", "write_data_by_identifier",
     "execute_routine", "ecu_reset", "send_and_receive"}

SecuredOps ==
    {"read_vin", "read_data_by_identifier", "write_data_by_identifier",
     "execute_routine"}

---------------------------------------------------------------------------
(* C1 *)

\* C1: in the states CONNECTED, SESSION_STARTED and SECURITY_REQUESTED,
\* read_data_by_identifier, write_data_by_identifier, execute_routine and
\* read_vin fail by returning None or False, with no channel I/O and the
\* session state unchanged.
C1_SecuredOpsReturnFailure ==
    (call.op \in SecuredOps
     /\ call.pre \in {"CONNECTED", "SESSION_STARTED", "SECURITY_REQUESTED"})
    => /\ ret.out = (IF call.op = "write_data_by_identifier"
                     THEN "False" ELSE "None")
       /\ chanLog = <<>>
       /\ state = call.pre

---------------------------------------------------------------------------
(* C2 *)

\* C2 as stated: the state starts DISCONNECTED, and no operation other than
\* disconnect moves it to a lower state (so SECURITY_GRANTED, once reached,
\* stays until disconnect).
C2_OnlyDisconnectLowers ==
    /\ (ser = "None" => state = "DISCONNECTED")
    /\ (call.op \in SessionOps \ {"disconnect"}
        => StateValue(state) >= StateValue(call.pre))

\* C2 as amended: the state starts DISCONNECTED; no operation other than
\* disconnect and connect moves it to a lower state, and connect leaves it
\* as it was or at CONNECTED.
C2_OnlyDisconnectAndConnectLower ==
    /\ (ser = "None" => state = "DISCONNECTED")
    /\ (call.op \in SessionOps \ {"disconnect", "connect"}
        => StateValue(state) >= StateValue(call.pre))
    /\ (call.op = "connect" => state \in {call.pre, "CONNECTED"})

\* A refused start_diagnostic_session has run in SESSION_STARTED and the
\* state is still SESSION_STARTED.
C2_Witness ==
    /\ call.op = "start_diagnostic_session"
    /\ call.pre = "SESSION_STARTED"
    /\ ResponseWith(Received(chanLog), 127)
    /\ state = "SESSION_STARTED"

---------------------------------------------------------------------------
(* C3 and C4 *)

\* The seed response and the key response the device gives in the last call.
SeedAnswer == Answer(call.plan[1])
KeyAnswer  == Answer(call.plan[2])

\* The seed response is positive for the level asked: byte4 == 0x67,
\* byte5 == level, and bytes 6-7 are there.
PositiveSeed ==
    /\ ResponseWith(SeedAnswer, 103)
    /\ Len(SeedAnswer) >= 8
    /\ SeedAnswer[6] = call.args.n

SeedValue == SeedAnswer[7] * 256 + SeedAnswer[8]

\* The key response is positive: byte4 == 0x67 and byte5 == level + 1.
PositiveKey ==
    /\ ResponseWith(KeyAnswer, 103)
    /\ Len(KeyAnswer) >= 6
    /\ KeyAnswer[6] = call.args.n + 1

\* request_security_access has been called in an active session on an open
\* channel.
AccessRequested ==
    /\ call.op = "request_security_access"
    /\ call.ser = "open"
    /\ call.pre \in {"SESSION_STARTED", "SECURITY_REQUESTED", "SECURITY_GRANTED"}

C4_ZeroSeedGrantsDirectly ==
    (AccessRequested /\ PositiveSeed)
    => IF SeedValue = 0
       THEN /\ state = "SECURITY_GRANTED"
            /\ Written(chanLog) = <<format_security_access_request(call.args.n)>>
       ELSE /\ Len(Written(chanLog)) = 2
            /\ state \in {"SECURITY_REQUESTED", "SECURITY_GRANTED"}

---------------------------------------------------------------------------
(* C5 *)

ExchangeOps ==
    {"start_diagnostic_session", "request_security_access",
     "read_data_by_identifier", "write_data_by_identifier",
     "execute_routine", "ecu_reset"}

\* C5: for every operation, a response whose byte 4 is 0x7F leaves the
\* state as it was when the request was sent, and the operation reports
\* failure with the NRC (byte 6) translated by translate_error_code.
C5_NegativeResponseReported ==
    (call.op \in ExchangeOps /\ ResponseWith(Received(chanLog), 127))
    => /\ state = (IF Len(Written(chanLog)) = 2
                   THEN "SECURITY_REQUESTED" ELSE call.pre)
       /\ ret.out \in {"False", "None"}
       /\ (Len(Received(chanLog)) >= 7
           => ret.err = translate_error_code(Received(chanLog)[7]))

---------------------------------------------------------------------------
(* C6 *)

\* The last call went to the channel and the channel failed for good: the
\* port was found closed, or every one of the attempts raised.
ChannelFailed ==
    LET retries == IF call.op = "send_and_receive"
                   THEN call.args.n ELSE DefaultRetries
    IN  /\ \/ call.op \in {"ecu_reset", "send_and_receive"}
           \/ call.op = "start_diagnostic_session" /\ call.pre # "DISCONNECTED"
        /\ \/ call.ser # "open"
           \/ /\ retries >= 1
              /\ CountEv(chanLog, {"reset_err", "write_err", "read_err"})
                    = retries

\* C6 as stated: when send_and_receive fails on an unrecoverable channel
\* error, the state is reset to DISCONNECTED.
C6_ChannelFailureResets == ChannelFailed => state = "DISCONNECTED"

\* C6 as amended: when send_and_receive fails on an unrecoverable channel
\* error, the operation returns its failure value and the state is left as
\* it was.
C6_ChannelFailureKeepsState ==
    ChannelFailed
    => /\ state = call.pre
       /\ ret.out = (IF call.op = "send_and_receive" THEN "None" ELSE "False")

\* Every attempt of a start_diagnostic_session raised, in CONNECTED.
C6_Witness ==
    /\ ChannelFailed
    /\ call.op = "start_diagnostic_session"
    /\ call.ser = "open"
    /\ call.pre = "CONNECTED"
    /\ state = "CONNECTED"

---------------------------------------------------------------------------
(* C7 *)

\* C7: start_diagnostic_session moves the state to SESSION_STARTED exactly
\* when a complete response of at least 5 bytes with byte4 == 0x50 is
\* received; otherwise the state is unchanged; in DISCONNECTED it returns
\* False without channel I/O.
C7_SessionStartedIffPositive ==
    call.op = "start_diagnostic_session"
    => IF call.pre = "DISCONNECTED"
       THEN ret.out = "False" /\ chanLog = <<>> /\ state = "DISCONNECTED"
       ELSE IF ResponseWith(Received(chanLog), 80)
       THEN ret.out = "True" /\ state = "SESSION_STARTED"
       ELSE ret.out = "False" /\ state = call.pre

\* A positive response has taken CONNECTED to SESSION_STARTED.
C7_Witness ==
    /\ call.op = "start_diagnostic_session"
    /\ call.pre = "CONNECTED"
    /\ ResponseWith(Received(chanLog), 80)
    /\ state = "SESSION_STARTED"

---------------------------------------------------------------------------
(* C8 *)

\* C8: request_security_access below SESSION_STARTED reports the state
\* error (RuntimeError "No active diagnostic session"), writes nothing, is
\* not retried and leaves the state unchanged.
C8_StateErrorBelowSession ==
    (call.op = "request_security_access"
     /\ call.pre \in {"DISCONNECTED", "CONNECTED"})
    => /\ ret.out = "RuntimeError"
       /\ chanLog = <<>>
       /\ state = call.pre

---------------------------------------------------------------------------
(* C9 *)

\* A write comes before the close in the log.
WriteBeforeClose(log) ==
    \E i, j \in DOMAIN log :
        i < j /\ log[i].ev = "write" /\ log[j].ev = "close"

\* C9: disconnect in any state leaves the client disconnected (state
\* DISCONNECTED, is_connected False), and when a session was active a
\* keep-alive or restart command is written before the channel is closed.
C9_DisconnectAlwaysDisconnects ==
    /\ call.op = "disconnect"
       => /\ state = "DISCONNECTED"
          /\ (StateValue(call.pre) >= StateValue("SESSION_STARTED")
              => WriteBeforeClose(chanLog))
    /\ (call.op = "t2_disconnect"
        /\ CountEv(chanLog, {"write_err", "close_err"}) = 0)
       => /\ ~is_connected
          /\ (call.conn => WriteBeforeClose(chanLog))

---------------------------------------------------------------------------
(* C10 *)

\* During the last call the channel never delivers a complete frame: every
\* attempt ends in silence or with a partial frame, or raises.
NeverComplete == \A i \in DOMAIN call.plan[1] : call.plan[1][i] \in FailedAttempts

\* During the last call the channel takes every frame written to it:
\* reset_input_buffer and write do not raise.
WritesAccepted ==
    \A i \in DOMAIN call.plan[1] : call.plan[1][i].pre = "ok"

---------------------------------------------------------------------------
(* C11 *)

\* The operations that go through send_and_receive.
ChannelOps ==
    {"start_diagnostic_session", "request_security_access", "send_keep_alive",
     "read_vin", "read_data_by_identifier", "write_data_by_identifier",
     "execute_routine", "ecu_reset", "send_and_receive"}

\* C11 as stated: in each attempt of send_and_receive the frame is written
\* first, then the input buffer is cleared, then polling starts: every clear
\* comes right after the write of its attempt, and the first read of an
\* attempt right after the clear.
C11_WriteThenClear ==
    call.op \in ChannelOps
    => \A i \in DOMAIN chanLog :
          /\ chanLog[i].ev = "reset"
             => (i > 1 /\ chanLog[i - 1].ev = "write")
          /\ chanLog[i].ev \in {"read", "read_err"}
             => (i > 1 /\ chanLog[i - 1].ev \in {"reset", "read"})

\* C11 as amended: in each attempt of send_and_receive the input buffer is
\* cleared first, then the frame is written, then polling starts: every
\* write comes right after the clear of its attempt, and the first read of
\* an attempt right after the write.
C11_ClearThenWrite ==
    call.op \in ChannelOps
    => \A i \in DOMAIN chanLog :
          /\ chanLog[i].ev \in {"write", "write_err"}
             => (i > 1 /\ chanLog[i - 1].ev = "reset")
          /\ chanLog[i].ev \in {"read", "read_err"}
             => (i > 1 /\ chanLog[i - 1].ev \in {"write", "read"})
          /\ chanLog[i].ev \in {"reset", "reset_err"}
             => (i = 1 \/ chanLog[i - 1].ev # "reset")

\* A call of two attempts or more, the first of which read something: the
\* log begins clear, write, read.
C11_Witness ==
    /\ call.op = "send_and_receive"
    /\ Len(chanLog) >= 3
    /\ chanLog[1].ev = "reset"
    /\ chanLog[2].ev = "write"
    /\ chanLog[3].ev = "read"
    /\ Len(Written(chanLog)) >= 2

---------------------------------------------------------------------------
(* C12 *)

RECURSIVE Flatten(_, _)
\* The bytes the passes i.. of a polling loop deliver, put together.
Flatten(polls, i) ==
    IF i > Len(polls) THEN <<>> ELSE polls[i].data \o Flatten(polls, i + 1)

\* In the attempt att the device delivers a complete frame, in one part or
\* several, within the timeout window: the channel takes the write and no
\* read raises.
DeliversFrame(att) ==
    /\ att.pre = "ok"
    /\ \A i \in DOMAIN att.polls : ~att.polls[i].err
    /\ IsComplete(Flatten(att.polls, 1))

\* The last call awaited a response on an open channel whose first attempt
\* delivers a complete frame.
FrameDelivered ==
    /\ \/ call.op = "send_and_receive" /\ call.args.flag /\ call.args.n >= 1
       \/ call.op = "ecu_reset"
       \/ call.op = "start_diagnostic_session" /\ call.pre # "DISCONNECTED"
    /\ call.ser = "open"
    /\ Len(call.plan[1]) >= 1
    /\ DeliversFrame(call.plan[1][1])

\* C12: however the device splits a complete response frame into partial
\* deliveries within one timeout window, send_and_receive accumulates them
\* and returns a response containing the whole frame
\* (len(response) >= response[0]), the command having been written once.
C12_PartialDeliveriesAccumulate ==
    FrameDelivered
    => /\ IsComplete(Received(chanLog))
       /\ \E n \in 1..Len(Flatten(call.plan[1][1].polls, 1)) :
             Received(chanLog) = SubSeq(Flatten(call.plan[1][1].polls, 1), 1, n)
       /\ Len(Written(chanLog)) = 1
       /\ AttemptsMade(chanLog) = 1
       /\ call.op = "send_and_receive"
          => (ret.out = "bytes" /\ ret.data = Received(chanLog))

\* A six-byte frame has arrived in three parts or more and is returned whole.
C12_Witness ==
    /\ FrameDelivered
    /\ call.op = "send_and_receive"
    /\ CountEv(chanLog, {"read"}) >= 3
    /\ ret.out = "bytes"
    /\ ret.data = <<6, 126, 0, 2, 80, 2>>
    /\ Len(Written(chanLog)) = 1

---------------------------------------------------------------------------
(* C13 *)

\* C13: every call of send_and_receive on an open channel terminates,
\* whatever the device delivers (nothing, partial frames whose declared
\* length is never reached, read or write errors), after at most `retries`
\* attempts, provided the clock advances.
C13_Terminates ==
    /\ [](run.tries <= run.retries)
    /\ (run.pc # "idle") ~> (run.pc = "done")

\* A call with retries = 3 has ended after three attempts, the last of
\* which was left with a partial frame.
C13_Witness ==
    /\ ser = "open"
    /\ run.pc = "done"
    /\ run.retries = 3
    /\ run.tries = 3
    /\ run.writes = 3
    /\ run.response = <<7, 126>>
    /\ run.result = "None"

---------------------------------------------------------------------------
(* C14 *)

\* The attempt of the script in which the device first delivers a complete
\* frame (0: none does).
FirstAnswer(script) ==
    LET A == {i \in DOMAIN script : DeliversFrame(script[i])}
    IN  IF A = {} THEN 0 ELSE CHOOSE i \in A : \A j \in A : i <= j

\* The last call is a service call that went to the channel, and the first
\* complete response the device gives it is a negative response.
NegativeAnswered ==
    /\ call.op \in ExchangeOps
    /\ call.ser = "open"
    /\ chanLog # <<>>
    /\ FirstAnswer(call.plan[1]) >= 1
    /\ ResponseWith(Flatten(call.plan[1][FirstAnswer(call.plan[1])].polls, 1),
                    127)

---------------------------------------------------------------------------
(* C15 *)

\* The service operations of C15.
ServiceOps ==
    {"request_security_access", "read_vin", "read_data_by_identifier",
     "write_data_by_identifier", "execute_routine", "ecu_reset"}

\* C15: for every complete response r (len(r) >= 1 and len(r) >= r[0])
\* that send_and_receive returns to it, a service operation returns a
\* success or failure value and never reads r at an index >= len(r).
C15_ServicesNeverReadPastEnd ==
    (call.op \in ServiceOps /\ IsComplete(Received(chanLog)))
    => ret.out \in {"True", "False", "None", "bytes", "str"}

---------------------------------------------------------------------------
(* C16 *)

\* The number of service bytes of the frame a constructor builds: the
\* service id and what follows it.
ServiceBytes ==
    CASE calc.fn \in {"start_diagnostic_session", "send_keep_alive"} -> 2
      [] calc.fn \in {"format_security_access_request", "read_vin",
                      "read_data_by_identifier", "ecu_reset"} -> 3
      [] calc.fn = "format_key_response" -> 5
      [] calc.fn = "write_data_by_identifier" -> 3 + Len(calc.data)
      [] calc.fn = "execute_routine" -> 4 + Len(calc.data)

\* C16: every command frame the client builds, for every payload length,
\* has first byte equal to the number of bytes of the frame, which is 4 +
\* the number of service bytes, so that len(frame) >= frame[0] holds.
C16_LengthByteIsFrameLength ==
    calc.out.kind = "frame"
    => /\ calc.out.frame[1] = Len(calc.out.frame)
       /\ Len(calc.out.frame) = 4 + ServiceBytes
       /\ calc.out.frame[4] = ServiceBytes
       /\ IsComplete(calc.out.frame)

\* write_data_by_identifier has built the longest frame a length byte can
\* declare: 248 bytes of data, 255 in all.
C16_Witness ==
    /\ calc.fn = "write_data_by_identifier"
    /\ Len(calc.data) = 248
    /\ calc.out.kind = "frame"
    /\ calc.out.frame[1] = 255
    /\ Len(calc.out.frame) = 255

---------------------------------------------------------------------------
(* C17 *)

\* C17: for every seed in [0, 0xFFFF] and every level in {0x01, 0xFB,
\* 0xFD}, calculate_key returns a value in [0, 0xFFFF], and the same
\* (seed, level) always gives the same key.
C17_KeyInRange ==
    (calc.fn = "calculate_key" /\ calc.seed \in 0..SeedLimit)
    => /\ calc.out.kind = "key"
       /\ calc.out.key \in 0..65535
       /\ calc.out.key = calculate_key(calc.seed, calc.level)

\* The key of seed 0xFFFF at level 0x01: the addition of 0xB988 has
\* wrapped around to 0xB987.
C17_Witness ==
    /\ calc.fn = "calculate_key"
    /\ calc.seed = 65535
    /\ calc.level = 1
    /\ calc.out.key = 47495

---------------------------------------------------------------------------
(* C18 *)

\* The key known_pairs expects for the seed (0 - 1: the seed is not in
\* the list).
KnownKey(seed) ==
    LET P == {i \in DOMAIN known_pairs : known_pairs[i][1] = seed}
    IN  IF P = {} THEN 0 - 1 ELSE known_pairs[CHOOSE i \in P : TRUE][2]

\* C18: TRIONIC8_Algorithm.compute maps each known seed to its known key:
\* 0x3B86 to 0x3BAF, 0x1234 to 0x8A83, 0xABCD to 0x2323, 0xFFFF to 0xB987.
C18_KnownPairsMatch ==
    (calc.fn \in {"compute", "src_compute"} /\ KnownKey(calc.seed) >= 0)
    => (calc.out.kind = "key" /\ calc.out.key = KnownKey(calc.seed))

---------------------------------------------------------------------------
(* C19 *)

\* C19: every key-derivation entry point (compute in both copies, and
\* calculate_key) rejects a seed outside [0, 0xFFFF] with a ValueError
\* instead of returning a key.
C19_OutOfRangeSeedRejected ==
    (calc.fn \in {"compute", "src_compute", "calculate_key"}
     /\ calc.seed \notin 0..SeedLimit)
    => calc.out.kind = "ValueError"

---------------------------------------------------------------------------
(* C20 *)

---------------------------------------------------------------------------
(* The download protocol: commands and the device's side *)

\* response[i:j]
Slice(r, i, j) ==
    LET e == IF j < Len(r) THEN j ELSE Len(r)
    IN  IF i >= e THEN <<>> ELSE SubSeq(r, i + 1, e)

\* The enter/verify command EF 56 80 3B.
DOWNLOAD_COMMAND == <<239, 86, 128, 59>>

\* enter_download_mode: expected_response, EF 56 01 BA.
expected_response == <<239, 86, 1, 186>>

\* tech2_direct.py: close_cmd, EF 56 80 3C.
close_cmd == <<239, 86, 128, 60>>

\* The five read commands: 0x81 0x5A 0x0F 0x2E, offset (2 bytes), count,
\* checksum.
CHUNK_COMMANDS ==
    << <<129, 90, 15, 46, 0, 0, 166, 66>>,
       <<129, 90, 15, 46, 0, 166, 166, 156>>,
       <<129, 90, 15, 46, 1, 76, 166, 245>>,
       <<129, 90, 15, 46, 1, 242, 166, 79>>,
       <<129, 90, 15, 46, 2, 152, 50, 28>> >>

\* The number of bytes read for each chunk.
CHUNK_SIZES == <<169, 169, 169, 169, 53>>

\* The byte the device holds at offset k of its memory.
Memory(k) == (7 * k + 3) % 256

\* The two bytes that precede the data of a chunk, and the byte that
\* follows it.
ChunkHeader == <<129, 90>>
ChunkTrailer == <<165>>

\* What the device sends for a read command: header, the `count` bytes at
\* `offset`, trailer.
DeviceChunk(command) ==
    LET offset == 256 * command[5] + command[6]
        count  == command[7]
    IN  ChunkHeader \o [k \in 1..count |-> Memory(offset + k - 1)]
                    \o ChunkTrailer


\* What arrives of chunk i before the read gives up: nothing, the header
\* alone, a part, or all of it.
ChunkArrivals(i) ==
    IF i \in DOMAIN CHUNK_COMMANDS
    THEN { Slice(DeviceChunk(CHUNK_COMMANDS[i]), 0, n) :
             n \in {0, 2, ShortLen, CHUNK_SIZES[i]} }
    ELSE {}

\* What arrives after the second enter command: nothing, a part of the
\* acknowledgement, the acknowledgement, or four other bytes.
VerifyArrivals ==
    { <<>>, <<239, 86, 1>>, <<239, 86, 1, 186>>, <<239, 86, 1, 187>>,
      <<127, 86, 1, 186>> }

\* What arrives after the restart command.
RestartArrivals == { <<>>, <<139, 86, 0, 31>> }

\* os.write of a whole command, or os.write raising.
WriteOutcomes == {"ok", "err"}

\* The image the device holds: 4 * 166 + 50 bytes.
DeviceImage == [k \in 1..714 |-> Memory(k - 1)]

---------------------------------------------------------------------------
(* import_serial.py *)

\* open_tech2_port(port_name): os.open gives a descriptor ("fd") or raises.
open_tech2_port(opened) ==
    IF opened = "fd"
    THEN [port |-> "fd", log |-> <<Ev("open", <<>>)>>]
    ELSE [port |-> "None", log |-> <<Ev("open_err", <<>>)>>]

\* The finally clause of open_tech2_port: os.close, whose exception is
\* logged and dropped.
close_tech2_port(p, closed) ==
    IF p = "None" THEN <<>>
    ELSE IF closed THEN <<Ev("close", <<>>)>> ELSE <<Ev("close_err", <<>>)>>

\* os.write(port, command): the command is written, or the call raises.
os_write(command, written) ==
    IF written = "ok"
    THEN [ret |-> TRUE, log |-> <<Ev("write", command)>>]
    ELSE [ret |-> FALSE, log |-> <<Ev("write_err", command)>>]

\* send_command(port, command): True unless os.write raises.
send_command(command, written) == os_write(command, written)

\* read_response(port, expected_length): the bytes that arrive before the
\* timeout, at most expected_length of them.
read_response(expected_length, arrives) == Slice(arrives, 0, expected_length)

\* enter_download_mode(port)
enter_download_mode(w1, w2, arrives) ==
    LET s1 == send_command(DOWNLOAD_COMMAND, w1)
        s2 == send_command(DOWNLOAD_COMMAND, w2)
        verify_response == read_response(4, arrives)
        log == s1.log \o s2.log \o <<Ev("read", verify_response)>>
    IN  IF ~s1.ret THEN [ret |-> FALSE, log |-> s1.log]
        ELSE IF ~s2.ret THEN [ret |-> FALSE, log |-> s1.log \o s2.log]
        ELSE IF Len(verify_response) # 4 THEN [ret |-> FALSE, log |-> log]
        ELSE IF verify_response # expected_response
        THEN [ret |-> FALSE, log |-> log]
        ELSE [ret |-> TRUE, log |-> log]

\* send_restart_command(port)
send_restart_command(written) == send_command(RESTART_COMMAND, written)

\* The number of read commands of download_tech2_data.
read_commands(download_only_seed) == IF download_only_seed THEN 1 ELSE 5

RECURSIVE combined_data(_, _)
\* Lines 169-176: the buffers from the i-th on, each without its 2-byte
\* header when it is longer than 2 bytes.
combined_data(data_buffers, i) ==
    IF i > Len(data_buffers) THEN <<>>
    ELSE LET buffer == data_buffers[i]
             chunk_data == IF Len(buffer) > 2 THEN SliceFrom(buffer, 2)
                           ELSE buffer
         IN  chunk_data \o combined_data(data_buffers, i + 1)

\* The variables a download run of the three scripts leaves alone.
NotDl ==
    <<state, ser, port, is_connected, call, ret, chanLog, run, calc, px, clk>>

\* download_tech2_data: `with open_tech2_port(port_name) as port`.  When
\* os.open raises, the context manager raises and the function returns None.
OpenTech2Port ==
    \E opened \in {"fd", "error"}, download_only_seed \in BOOLEAN :
        LET o == open_tech2_port(opened) IN
        /\ dl.pc = "idle"
        /\ dl' = [dl EXCEPT !.impl = "import_serial",
                            !.seed_only = download_only_seed,
                            !.log = o.log,
                            !.pc = IF o.port = "None" THEN "done" ELSE "enter",
                            !.result = IF o.port = "None" THEN "None"
                                       ELSE "none"]
        /\ UNCHANGED NotDl

\* download_tech2_data: `if not enter_download_mode(port): return None`.
EnterDownloadMode ==
    \E w1 \in WriteOutcomes, w2 \in WriteOutcomes, arrives \in VerifyArrivals :
        LET o == enter_download_mode(w1, w2, arrives) IN
        /\ dl.impl = "import_serial"
        /\ dl.pc = "enter"
        /\ dl' = [dl EXCEPT !.log = @ \o o.log,
                            !.entered = o.ret,
                            !.i = 1,
                            !.pc = IF o.ret THEN "chunk" ELSE "close",
                            !.result = IF o.ret THEN "none" ELSE "None"]
        /\ UNCHANGED NotDl

\* download_tech2_data: one pass of the loop over the read commands.
ReadChunk ==
    \E written \in WriteOutcomes, arrives \in ChunkArrivals(dl.i) :
        LET s == send_command(CHUNK_COMMANDS[dl.i], written)
            chunk == read_response(CHUNK_SIZES[dl.i], arrives)
            last == dl.i = read_commands(dl.seed_only)
        IN
        /\ dl.impl = "import_serial"
        /\ dl.pc = "chunk"
        /\ dl' = IF ~s.ret
                 THEN [dl EXCEPT !.log = @ \o s.log, !.pc = "close",
                                 !.result = "None"]
                 ELSE [dl EXCEPT !.log = @ \o s.log \o <<Ev("read", chunk)>>,
                                 !.data_buffers = Append(@, chunk),
                                 !.i = @ + 1,
                                 !.pc = IF last THEN "restart" ELSE "chunk"]
        /\ UNCHANGED NotDl

\* download_tech2_data: send_restart_command(port), after the loop.
SendRestartCommand ==
    \E written \in WriteOutcomes :
        /\ dl.impl = "import_serial"
        /\ dl.pc = "restart"
        /\ dl' = [dl EXCEPT !.log = @ \o send_restart_command(written).log,
                            !.pc = "close"]
        /\ UNCHANGED NotDl

\* download_tech2_data: the with block is left, the port closed, and the
\* collected buffers are combined and returned.
ClosePort ==
    \E closed \in BOOLEAN :
        /\ dl.impl = "import_serial"
        /\ dl.pc = "close"
        /\ dl' = IF dl.result = "None" \/ dl.data_buffers = <<>>
                 THEN [dl EXCEPT !.log = @ \o close_tech2_port("fd", closed),
                                 !.pc = "done", !.result = "None"]
                 ELSE [dl EXCEPT !.log = @ \o close_tech2_port("fd", closed),
                                 !.pc = "done", !.result = "image",
                                 !.image = combined_data(dl.data_buffers, 1)]
        /\ UNCHANGED NotDl

---------------------------------------------------------------------------
(* src/import_serial.py *)

\* read_with_timeout(fd, length): the bytes, or TimeoutError when fewer
\* than `length` arrive.
read_with_timeout(length, arrives) ==
    LET buffer == Slice(arrives, 0, length)
    IN  [raised |-> Len(buffer) < length, buffer |-> buffer]

RECURSIVE src_combined_data(_, _)
\* Step 3: the buffers, one after the other.
src_combined_data(data_buffers, i) ==
    IF i > Len(data_buffers) THEN <<>>
    ELSE data_buffers[i] \o src_combined_data(data_buffers, i + 1)

\* download_tech2_data: os.open, outside the try block.
SrcOpen ==
    \E opened \in {"fd", "error"} :
        /\ dl.pc = "idle"
        /\ dl' = IF opened = "error"
                 THEN [dl EXCEPT !.impl = "src_import_serial",
                                 !.log = <<Ev("open_err", <<>>)>>,
                                 !.pc = "done", !.result = "raise"]
                 ELSE [dl EXCEPT !.impl = "src_import_serial",
                                 !.log = <<Ev("open", <<>>)>>,
                                 !.pc = "enter"]
        /\ UNCHANGED NotDl

\* download_tech2_data, step 1: the command twice, the 4 bytes of the
\* verification response read and logged.
SrcEnter ==
    \E w1 \in WriteOutcomes, w2 \in WriteOutcomes, arrives \in VerifyArrivals :
        LET s1 == os_write(DOWNLOAD_COMMAND, w1)
            s2 == os_write(DOWNLOAD_COMMAND, w2)
            response == read_with_timeout(4, arrives)
            log == IF ~s1.ret THEN s1.log
                   ELSE IF ~s2.ret THEN s1.log \o s2.log
                   ELSE s1.log \o s2.log \o <<Ev("read", response.buffer)>>
            ok == s1.ret /\ s2.ret /\ ~response.raised
        IN
        /\ dl.impl = "src_import_serial"
        /\ dl.pc = "enter"
        /\ dl' = [dl EXCEPT !.log = @ \o log,
                            !.entered = ok,
                            !.i = 1,
                            !.pc = IF ok THEN "chunk" ELSE "close",
                            !.result = IF ok THEN "none" ELSE "None"]
        /\ UNCHANGED NotDl

\* download_tech2_data, step 2: one of the five chunks.
SrcReadChunk ==
    \E written \in WriteOutcomes, arrives \in ChunkArrivals(dl.i) :
        LET s == os_write(CHUNK_COMMANDS[dl.i], written)
            chunk == read_with_timeout(CHUNK_SIZES[dl.i], arrives)
        IN
        /\ dl.impl = "src_import_serial"
        /\ dl.pc = "chunk"
        /\ dl' = IF ~s.ret
                 THEN [dl EXCEPT !.log = @ \o s.log, !.pc = "close",
                                 !.result = "None"]
                 ELSE IF chunk.raised
                 THEN [dl EXCEPT !.log = @ \o s.log
                                           \o <<Ev("read", chunk.buffer)>>,
                                 !.pc = "close", !.result = "None"]
                 ELSE [dl EXCEPT !.log = @ \o s.log
                                           \o <<Ev("read", chunk.buffer)>>,
                                 !.data_buffers =
                                     Append(@, SliceFrom(chunk.buffer, 2)),
                                 !.i = @ + 1,
                                 !.pc = IF dl.i = 5 THEN "restart"
                                        ELSE "chunk"]
        /\ UNCHANGED NotDl

\* download_tech2_data, steps 3 and 4: the chunks are combined, the restart
\* command is written and its 4-byte response read.
SrcRestart ==
    \E written \in WriteOutcomes, arrives \in RestartArrivals :
        LET s == os_write(RESTART_COMMAND, written)
            restart_response == read_with_timeout(4, arrives)
        IN
        /\ dl.impl = "src_import_serial"
        /\ dl.pc = "restart"
        /\ dl' = IF ~s.ret
                 THEN [dl EXCEPT !.log = @ \o s.log, !.pc = "close",
                                 !.result = "None"]
                 ELSE IF restart_response.raised
                 THEN [dl EXCEPT !.log = @ \o s.log
                                   \o <<Ev("read", restart_response.buffer)>>,
                                 !.pc = "close", !.result = "None"]
                 ELSE [dl EXCEPT !.log = @ \o s.log
                                   \o <<Ev("read", restart_response.buffer)>>,
                                 !.pc = "close", !.result = "image",
                                 !.image =
                                     src_combined_data(dl.data_buffers, 1)]
        /\ UNCHANGED NotDl

\* download_tech2_data: `finally: os.close(fd)`; os.close raising replaces
\* the value returned by the exception.
SrcClose ==
    \E closed \in BOOLEAN :
        /\ dl.impl = "src_import_serial"
        /\ dl.pc = "close"
        /\ dl' = IF closed
                 THEN [dl EXCEPT !.log = @ \o <<Ev("close", <<>>)>>,
                                 !.pc = "done"]
                 ELSE [dl EXCEPT !.log = @ \o <<Ev("close_err", <<>>)>>,
                                 !.pc = "done", !.result = "raise",
                                 !.image = <<>>]
        /\ UNCHANGED NotDl

---------------------------------------------------------------------------
(* src/tech2_direct.py *)

\* Lines 69-75: the 166 (50) bytes after the header of each buffer.
direct_combined_data(data_buffers) ==
    Slice(data_buffers[1], 2, 168) \o Slice(data_buffers[2], 2, 168)
        \o Slice(data_buffers[3], 2, 168) \o Slice(data_buffers[4], 2, 168)
        \o Slice(data_buffers[5], 2, 52)

\* os.open; when it raises the handler's os.close(port) fails on the unbound
\* name and the script ends.
DirectOpen ==
    \E opened \in {"fd", "error"} :
        /\ dl.pc = "idle"
        /\ dl' = IF opened = "error"
                 THEN [dl EXCEPT !.impl = "tech2_direct",
                                 !.log = <<Ev("open_err", <<>>)>>,
                                 !.pc = "done", !.result = "None"]
                 ELSE [dl EXCEPT !.impl = "tech2_direct",
                                 !.log = <<Ev("open", <<>>)>>,
                                 !.pc = "enter"]
        /\ UNCHANGED NotDl

\* Lines 22-39: the command twice, then one os.read of up to 4 bytes, which
\* must give at least one byte.
DirectEnter ==
    \E w1 \in WriteOutcomes, w2 \in WriteOutcomes, arrives \in VerifyArrivals :
        LET s1 == os_write(DOWNLOAD_COMMAND, w1)
            s2 == os_write(DOWNLOAD_COMMAND, w2)
            verify_response == Slice(arrives, 0, 4)
            log == IF ~s1.ret THEN s1.log
                   ELSE IF ~s2.ret THEN s1.log \o s2.log
                   ELSE s1.log \o s2.log \o <<Ev("read", verify_response)>>
            ok == s1.ret /\ s2.ret /\ verify_response # <<>>
        IN
        /\ dl.impl = "tech2_direct"
        /\ dl.pc = "enter"
        /\ dl' = [dl EXCEPT !.log = @ \o log,
                            !.entered = ok,
                            !.i = 1,
                            !.pc = IF ok THEN "chunk" ELSE "close",
                            !.result = IF ok THEN "none" ELSE "None"]
        /\ UNCHANGED NotDl

\* Lines 54-64: one pass of the loop; the chunk is kept only when it has
\* its full size.
DirectReadChunk ==
    \E written \in WriteOutcomes, arrives \in ChunkArrivals(dl.i) :
        LET s == os_write(CHUNK_COMMANDS[dl.i], written)
            size == CHUNK_SIZES[dl.i]
            chunk == Slice(arrives, 0, size)
        IN
        /\ dl.impl = "tech2_direct"
        /\ dl.pc = "chunk"
        /\ dl' = IF ~s.ret
                 THEN [dl EXCEPT !.log = @ \o s.log, !.pc = "close",
                                 !.result = "None"]
                 ELSE [dl EXCEPT !.log = @ \o s.log \o <<Ev("read", chunk)>>,
                                 !.data_buffers =
                                     IF Len(chunk) # size THEN @
                                     ELSE Append(@, chunk),
                                 !.i = @ + 1,
                                 !.pc = IF dl.i = 5 THEN "restart"
                                        ELSE "chunk"]
        /\ UNCHANGED NotDl

\* Lines 66-93: with five buffers the data is combined and saved, the close
\* command written, its response read, and the restart command written;
\* with fewer, nothing is done.
DirectRestart ==
    \E w1 \in WriteOutcomes, w2 \in WriteOutcomes, arrives \in RestartArrivals :
        LET s1 == os_write(close_cmd, w1)
            s2 == os_write(RESTART_COMMAND, w2)
            close_response == Slice(arrives, 0, 4)
            log == IF ~s1.ret THEN s1.log
                   ELSE s1.log \o <<Ev("read", close_response)>> \o s2.log
        IN
        /\ dl.impl = "tech2_direct"
        /\ dl.pc = "restart"
        /\ dl' = IF Len(dl.data_buffers) = 5
                 THEN [dl EXCEPT !.log = @ \o log, !.pc = "close",
                                 !.result = "image",
                                 !.image =
                                     direct_combined_data(dl.data_buffers)]
                 ELSE [dl EXCEPT !.pc = "close", !.result = "None"]
        /\ UNCHANGED NotDl

\* os.close(port), at the end of the script or in the exception handler.
DirectClose ==
    \E closed \in BOOLEAN :
        /\ dl.impl = "tech2_direct"
        /\ dl.pc = "close"
        /\ dl' = [dl EXCEPT !.log = @ \o close_tech2_port("fd", closed),
                            !.pc = "done"]
        /\ UNCHANGED NotDl

---------------------------------------------------------------------------
(* archive/tech2_workflow_revised.py on tech2_communication.py *)

\* Tech2Communicator.read_response(expected_length): the bytes that arrive
\* before the timeout; nothing when the client is not connected.
t2_read_response(p, c, expected_length, arrives) ==
    IF ~c \/ p = "None" THEN <<>> ELSE Slice(arrives, 0, expected_length)

\* Tech2Communicator.send_command(command), with its connection check.
t2_send(p, c, command, written) ==
    IF ~c \/ p = "None" THEN [ret |-> FALSE, log |-> <<>>]
    ELSE t2_send_command(command, written)

\* Tech2Communicator.enter_download_mode(): False only when a command could
\* not be sent; the verification response is logged, not required.
t2_enter_download_mode(p, c, w1, w2, arrives) ==
    LET s1 == t2_send(p, c, DOWNLOAD_COMMAND, w1)
        s2 == t2_send(p, c, DOWNLOAD_COMMAND, w2)
        response == t2_read_response(p, c, 4, arrives)
    IN  IF ~s1.ret THEN [ret |-> FALSE, log |-> s1.log]
        ELSE IF ~s2.ret THEN [ret |-> FALSE, log |-> s1.log \o s2.log]
        ELSE [ret |-> TRUE,
              log |-> s1.log \o s2.log \o <<Ev("read", response)>>]

\* Tech2Communicator.download_chunk(chunk_index): the chunk read in up to
\* three attempts, empty when the command could not be sent or nothing came.
t2_download_chunk(p, c, chunk_index, written, arrives) ==
    LET s == t2_send(p, c, CHUNK_COMMANDS[chunk_index + 1], written)
        chunk_data == t2_read_response(p, c, CHUNK_SIZES[chunk_index + 1],
                                       arrives)
    IN  IF ~s.ret THEN [chunk_data |-> <<>>, log |-> s.log]
        ELSE [chunk_data |-> chunk_data,
              log |-> s.log \o <<Ev("read", chunk_data)>>]

\* os.write for the communicator: the whole command, or a part of it.
T2WriteOutcomes == {"ok", "short"}

\* The variables a run of full_data_workflow leaves alone.
NotWf == <<state, ser, call, ret, chanLog, run, calc, px, clk>>

\* full_data_workflow: tech2.connect(); on failure None is returned and the
\* finally clause calls disconnect(), which finds is_connected False.
WfConnect ==
    \E opened \in {"error", "fd0", "fd"} :
        LET o == t2_connect(port, is_connected, opened)
            d == t2_disconnect(o.port, o.is_connected, "ok", TRUE)
        IN
        /\ dl.pc = "idle"
        /\ port' = o.port
        /\ is_connected' = o.is_connected
        /\ dl' = IF o.ret = "True"
                 THEN [dl EXCEPT !.impl = "full_data_workflow",
                                 !.log = o.log, !.pc = "enter"]
                 ELSE [dl EXCEPT !.impl = "full_data_workflow",
                                 !.log = o.log \o d.log,
                                 !.pc = "done", !.result = "None"]
        /\ UNCHANGED NotWf

\* full_data_workflow: send_restart_command(), then enter_download_mode().
WfEnter ==
    \E w0 \in T2WriteOutcomes, w1 \in T2WriteOutcomes, w2 \in T2WriteOutcomes,
       arrives \in VerifyArrivals :
        LET r == t2_send(port, is_connected, RESTART_COMMAND, w0)
            o == t2_enter_download_mode(port, is_connected, w1, w2, arrives)
        IN
        /\ dl.impl = "full_data_workflow"
        /\ dl.pc = "enter"
        /\ dl' = [dl EXCEPT !.log = @ \o r.log \o o.log,
                            !.entered = o.ret,
                            !.i = 1,
                            !.pc = IF o.ret THEN "chunk" ELSE "close",
                            !.result = IF o.ret THEN "none" ELSE "None"]
        /\ UNCHANGED <<port, is_connected>>
        /\ UNCHANGED NotWf

\* full_data_workflow: one pass of the loop over the five chunks; all_data
\* is kept in dl.image.
WfDownloadChunk ==
    \E written \in T2WriteOutcomes, arrives \in ChunkArrivals(dl.i) :
        LET o == t2_download_chunk(port, is_connected, dl.i - 1, written,
                                   arrives)
            chunk_data == o.chunk_data
        IN
        /\ dl.impl = "full_data_workflow"
        /\ dl.pc = "chunk"
        /\ dl' = [dl EXCEPT !.log = @ \o o.log,
                            !.image =
                                IF chunk_data = <<>> THEN @
                                ELSE IF Len(chunk_data) > 2
                                THEN @ \o SliceFrom(chunk_data, 2)
                                ELSE @ \o chunk_data,
                            !.i = @ + 1,
                            !.pc = IF dl.i = 5 THEN "close" ELSE "chunk",
                            !.result = IF dl.i = 5 THEN "image" ELSE "none"]
        /\ UNCHANGED <<port, is_connected>>
        /\ UNCHANGED NotWf

\* full_data_workflow: None when nothing was downloaded, else all_data; the
\* finally clause calls tech2.disconnect().
WfDisconnect ==
    \E written \in T2WriteOutcomes, closed \in BOOLEAN :
        LET d == t2_disconnect(port, is_connected, written, closed) IN
        /\ dl.impl = "full_data_workflow"
        /\ dl.pc = "close"
        /\ port' = d.port
        /\ is_connected' = d.is_connected
        /\ dl' = IF dl.result = "None" \/ dl.image = <<>>
                 THEN [dl EXCEPT !.log = @ \o d.log, !.pc = "done",
                                 !.result = "None"]
                 ELSE [dl EXCEPT !.log = @ \o d.log, !.pc = "done"]
        /\ UNCHANGED NotWf

---------------------------------------------------------------------------
(* The download procedures, one run each *)

DownloadInit ==
    /\ state = "DISCONNECTED"
    /\ ser = "None"
    /\ port = "None"
    /\ is_connected = FALSE
    /\ call = IdleCall
    /\ ret = Ret("None", <<>>, "")
    /\ chanLog = <<>>
    /\ run = NoRun
    /\ calc = NoCalc
    /\ dl = NoDl
    /\ px = NoPx
    /\ clk = NoClk

DownloadNext ==
    \/ OpenTech2Port
    \/ EnterDownloadMode
    \/ ReadChunk
    \/ SendRestartCommand
    \/ ClosePort
    \/ SrcOpen
    \/ SrcEnter
    \/ SrcReadChunk
    \/ SrcRestart
    \/ SrcClose
    \/ DirectOpen
    \/ DirectEnter
    \/ DirectReadChunk
    \/ DirectRestart
    \/ DirectClose
    \/ WfConnect
    \/ WfEnter
    \/ WfDownloadChunk
    \/ WfDisconnect

DownloadSpec == DownloadInit /\ [][DownloadNext]_vars

---------------------------------------------------------------------------
(* Download runs: what the log of a run shows *)

\* The run is over: the procedure has returned, raised or ended.
DlDone == dl.pc = "done"

\* The position in the log of the read that follows the writing of the
\* command for chunk i (0: the command was not written, or not followed
\* by a read).
ChunkReadAt(log, i) ==
    LET J == { j \in 2..Len(log) :
                 /\ log[j].ev = "read"
                 /\ log[j - 1] = Ev("write", CHUNK_COMMANDS[i]) }
    IN  IF J = {} THEN 0 ELSE CHOOSE j \in J : TRUE

\* Each of the five chunk reads of the run returned its full size.
AllChunksFull(log) ==
    \A i \in DOMAIN CHUNK_COMMANDS :
        /\ ChunkReadAt(log, i) # 0
        /\ Len(log[ChunkReadAt(log, i)].d) = CHUNK_SIZES[i]

---------------------------------------------------------------------------
(* C21 *)

\* C21: when the handshake succeeded and each of the five chunk reads
\* returned its full size (169, 169, 169, 169, 53), the download returns an
\* image of exactly 714 bytes.
C21_FullChunksGive714Bytes ==
    (DlDone /\ dl.entered /\ AllChunksFull(dl.log))
        => (dl.result = "image" /\ Len(dl.image) = 714)

\* A chunk read of the run returned fewer bytes than its declared size.
SomeChunkShort(log) ==
    \E i \in DOMAIN CHUNK_COMMANDS :
        /\ ChunkReadAt(log, i) # 0
        /\ Len(log[ChunkReadAt(log, i)].d) < CHUNK_SIZES[i]

\* The channel took every command of the run whole: no write raised and
\* none was partial.
WritesTaken(log) ==
    \A j \in DOMAIN log :
        /\ log[j].ev # "write_err"
        /\ log[j].ev = "write" => Len(log[j].d) >= 4

\* The read commands written during the run, in order.
ChunkCommandsWritten(log) ==
    SelectSeq(Written(log), LAMBDA c : \E i \in DOMAIN CHUNK_COMMANDS :
                                            c = CHUNK_COMMANDS[i])

RECURSIVE ReceivedData(_, _)
\* The bytes received for the chunks from the i-th on, each read without
\* its 2-byte header, one after the other.
ReceivedData(log, i) ==
    IF i > Len(CHUNK_COMMANDS) THEN <<>>
    ELSE (IF ChunkReadAt(log, i) = 0 THEN <<>>
          ELSE SliceFrom(log[ChunkReadAt(log, i)].d, 2))
         \o ReceivedData(log, i + 1)

---------------------------------------------------------------------------
(* C22 *)

\* C22: in a full download whose handshake succeeded and whose commands the
\* channel takes, when a chunk read returns fewer bytes than its declared
\* size the download still returns an image, all five chunk commands have
\* been written in order, and the image is the bytes received for the
\* chunks, header stripped, nothing added.
C22_ShortChunkStillAppended ==
    (DlDone /\ dl.entered /\ ~dl.seed_only /\ WritesTaken(dl.log)
     /\ SomeChunkShort(dl.log))
        => /\ dl.result = "image"
           /\ ChunkCommandsWritten(dl.log) = CHUNK_COMMANDS
           /\ dl.image = ReceivedData(dl.log, 1)

---------------------------------------------------------------------------
(* C23 *)

\* C23: a download run returns None only when the mode-entry handshake did
\* not complete; every run whose handshake completed returns an image.
C23_FailureOnlyFromHandshake ==
    DlDone => /\ dl.entered => dl.result = "image"
              /\ dl.result = "None" => ~dl.entered

---------------------------------------------------------------------------
(* C24 *)

\* The enter command was written twice and the read after the second write
\* returned exactly EF 56 01 BA.
Acknowledged(log) ==
    \E j \in 3..Len(log) :
        /\ log[j] = Ev("read", expected_response)
        /\ log[j - 1] = Ev("write", DOWNLOAD_COMMAND)
        /\ log[j - 2] = Ev("write", DOWNLOAD_COMMAND)

\* C24: download mode is reported as entered only if the enter command was
\* written twice and the response read after the second write is exactly
\* EF 56 01 BA; after any other, shorter or missing acknowledgement no chunk
\* command is written.
C24_EnteredOnlyWhenAcknowledged ==
    /\ dl.entered => Acknowledged(dl.log)
    /\ ChunkCommandsWritten(dl.log) # <<>> => Acknowledged(dl.log)

---------------------------------------------------------------------------
(* C25 *)

\* The position of the last chunk read of the log (0: none).
LastChunkRead(log) ==
    LET J == { j \in 2..Len(log) :
                 /\ log[j].ev = "read"
                 /\ log[j - 1].ev = "write"
                 /\ \E i \in DOMAIN CHUNK_COMMANDS :
                        log[j - 1].d = CHUNK_COMMANDS[i] }
    IN  IF J = {} THEN 0 ELSE CHOOSE j \in J : \A k \in J : k <= j

\* The restart command is written (os.write is called with it, whether or
\* not the call raises) after the last chunk read and before os.close.
RestartBeforeClose(log) ==
    \E r \in DOMAIN log :
        /\ log[r].ev \in {"write", "write_err"}
        /\ log[r].d = RESTART_COMMAND
        /\ r > LastChunkRead(log)
        /\ \A c \in DOMAIN log : log[c].ev \in {"close", "close_err"} => r < c

\* C25: in every download run whose handshake succeeded, the restart
\* command 8B 56 00 1F is written after the last chunk read and before the
\* port is closed.
C25_RestartAfterDownload ==
    (DlDone /\ dl.entered) => RestartBeforeClose(dl.log)

---------------------------------------------------------------------------
(* C26 *)

\* os.close is called on the descriptor after it was opened.
ClosedAfterOpen(log) ==
    \A o \in DOMAIN log :
        log[o].ev = "open"
            => \E c \in DOMAIN log :
                   c > o /\ log[c].ev \in {"close", "close_err"}

\* C26: every download run that opened the serial port closes it before it
\* returns, whichever way it ends.
C26_OpenedPortIsClosed == DlDone => ClosedAfterOpen(dl.log)

---------------------------------------------------------------------------
(* Extraction of the VIN and the seed from an image *)

\* str.isalnum() of the character with code c (c < 128).
isalnum(c) ==
    \/ c >= 48 /\ c <= 57
    \/ c >= 65 /\ c <= 90
    \/ c >= 97 /\ c <= 122

\* int.from_bytes(b, byteorder='big')
int_from_bytes(b) ==
    IF Len(b) = 0 THEN 0
    ELSE IF Len(b) = 1 THEN b[1]
    ELSE 256 * b[1] + b[2]

\* archive/process_bin_revised.py: extract_data_from_binary(data, data_type)
extract_data_from_binary(data, data_type) ==
    LET vin_bytes == Slice(data, 20, 37)
        vin == [i \in DOMAIN vin_bytes |->
                   IF IsAsciiText(vin_bytes[i]) THEN vin_bytes[i] ELSE 46]
        hasVin == /\ data_type \in {"all", "vin"}
                  /\ Len(data) >= 20 + 17
                  /\ \A i \in DOMAIN vin : isalnum(vin[i]) \/ vin[i] = 46
        hasSeed == data_type \in {"all", "seed"} /\ Len(data) >= 48 + 2
        seed_value == 256 * At(data, 48) + At(data, 49)
    IN  IF data = <<>> THEN Parsed("None", Absent, Absent, Absent)
        ELSE IF data_type = "all"
        THEN Parsed("dict", IF hasVin THEN Str(vin) ELSE Absent,
                    IF hasSeed THEN Num(seed_value) ELSE Absent, Absent)
        ELSE IF data_type = "vin" /\ hasVin
        THEN Parsed("value", Str(vin), Absent, Absent)
        ELSE IF data_type = "seed" /\ hasSeed
        THEN Parsed("value", Absent, Num(seed_value), Absent)
        ELSE Parsed("None", Absent, Absent, Absent)

\* process_bin.py: parse_tech2_data(data)
parse_tech2_data(data) ==
    LET vin_data == Slice(data, 22, 39)
        vin == SelectSeq(vin_data, IsAsciiText)
        seed == IF Len(data) >= 50
                THEN Num(256 * At(data, 48) + At(data, 49)) ELSE PyNone
        key == IF Len(data) >= 52
               THEN Num(256 * At(data, 50) + At(data, 51)) ELSE PyNone
    IN  IF data = <<>> \/ Len(data) < 80
        THEN Parsed("None", Absent, Absent, Absent)
        ELSE Parsed("dict", IF Len(vin) = 17 THEN Str(vin) ELSE PyNone,
                    seed, key)

\* process_bin.py: get_seed_only(data)
get_seed_only(data) ==
    IF data # <<>> /\ Len(data) >= 50
    THEN Parsed("value", Absent, Num(256 * At(data, 48) + At(data, 49)),
                Absent)
    ELSE Parsed("None", Absent, Absent, Absent)

\* src/import_serial.py: parse_tech2_data(data)
src_parse_tech2_data(data) ==
    LET vin_bytes == Slice(data, 16, 33)
        vin == SelectSeq(vin_bytes, IsAsciiText)
        seed == int_from_bytes(Slice(data, 48, 50))
        calculated_key == int_from_bytes(Slice(data, 50, 52))
    IN  Parsed("dict", Str(vin), Num(seed), Num(calculated_key))

\* An image of n bytes: letters where the three functions look for the VIN
\* (offsets 16 to 38) but for the byte `special` at offset pos, the seed at
\* offsets 0x30 and 0x31.
Image(n, pos, special, seed) ==
    [k \in 1..n |->
        LET o == k - 1 IN
        IF o = pos THEN special
        ELSE IF o = 48 THEN seed \div 256
        ELSE IF o = 49 THEN seed % 256
        ELSE IF o >= 16 /\ o <= 38 THEN 65 + (o % 26)
        ELSE (5 * o) % 256]

\* The images drawn: every length up to MaxImageLen; a letter, a dot, a
\* punctuation mark, a control byte or a byte above 126 in the VIN; three
\* seeds.
Images ==
    { Image(n, pos, special, seed) :
        n \in 0..MaxImageLen, pos \in {16, 20, 30, 38},
        special \in {65, 46, 33, 0, 200}, seed \in {0, 4660, 65535} }

ParseInit ==
    /\ state = "DISCONNECTED"
    /\ ser = "None"
    /\ port = "None"
    /\ is_connected = FALSE
    /\ call = IdleCall
    /\ ret = Ret("None", <<>>, "")
    /\ chanLog = <<>>
    /\ run = NoRun
    /\ calc = NoCalc
    /\ dl = NoDl
    /\ \E data \in Images :
          px = [fn |-> "input", data |-> data, data_type |-> "all",
                out |-> NoParsed]
    /\ clk = NoClk

\* The function fn has been applied to the image drawn.
Extracted(fn, data_type, o) ==
    /\ px.fn = "input"
    /\ px' = [px EXCEPT !.fn = fn, !.data_type = data_type, !.out = o]
    /\ UNCHANGED <<state, ser, port, is_connected, call, ret, chanLog, run,
                   calc, dl, clk>>

ExtractDataFromBinary ==
    \E data_type \in {"all", "vin", "seed"} :
        Extracted("extract_data_from_binary", data_type,
                  extract_data_from_binary(px.data, data_type))

ParseTech2Data ==
    Extracted("parse_tech2_data", "all", parse_tech2_data(px.data))

GetSeedOnly == Extracted("get_seed_only", "seed", get_seed_only(px.data))

SrcParseTech2Data ==
    Extracted("src_parse_tech2_data", "all", src_parse_tech2_data(px.data))

ParseNext ==
    \/ ExtractDataFromBinary
    \/ ParseTech2Data
    \/ GetSeedOnly
    \/ SrcParseTech2Data

ParseSpec == ParseInit /\ [][ParseNext]_vars

---------------------------------------------------------------------------
(* C27 *)

\* The offset at which the function applied looks for the VIN.
VinOffset ==
    CASE px.fn = "extract_data_from_binary" -> 20
      [] px.fn = "parse_tech2_data"         -> 22
      [] px.fn = "src_parse_tech2_data"     -> 16
      [] OTHER                              -> 0

\* The call asked for the VIN; the call asked for the seed.
VinAsked == px.fn \notin {"input", "get_seed_only"} /\ px.data_type # "seed"
SeedAsked == px.fn # "input" /\ px.data_type # "vin"

\* C27: for an image of any length, the VIN is returned only if the image
\* has the 17 bytes at the VIN offset and the seed only if it has the 2
\* bytes at 0x30; no extraction raises; and an image that has the 2 bytes
\* at 0x30 always yields the seed 256 * image[0x30] + image[0x31].
C27_FieldsOnlyFromLongEnoughImage ==
    /\ px.out.kind # "raise"
    /\ (VinAsked /\ px.out.vin.k = "str") => Len(px.data) >= VinOffset + 17
    /\ (SeedAsked /\ px.out.seed.k = "int") => Len(px.data) >= 48 + 2
    /\ (SeedAsked /\ Len(px.data) >= 48 + 2)
           => px.out.seed = Num(256 * px.data[49] + px.data[50])

---------------------------------------------------------------------------
(* C28 *)

\* The 17 bytes at the VIN offset of the function applied.
VinWindow == Slice(px.data, VinOffset, VinOffset + 17)

\* Each byte of the window as its ASCII character when it is in 32..126,
\* as the placeholder '.' otherwise.
VinCharacters ==
    [i \in DOMAIN VinWindow |->
        IF VinWindow[i] >= 32 /\ VinWindow[i] <= 126 THEN VinWindow[i]
        ELSE 46]

\* Every character is a letter, a digit or the placeholder.
VinAcceptable ==
    \A i \in DOMAIN VinCharacters :
        \/ VinCharacters[i] = 46
        \/ VinCharacters[i] \in (48..57) \cup (65..90) \cup (97..122)

\* C28: on an image that has the 17 bytes of the VIN window, VIN extraction
\* returns the 17 characters (bytes outside 32..126 replaced by the
\* placeholder) exactly when each of them is alphanumeric or the
\* placeholder; any VIN returned has exactly 17 characters.
C28_VinIsSeventeenAcceptedCharacters ==
    /\ (VinAsked /\ Len(px.data) >= VinOffset + 17)
           => /\ px.out.vin.k = "str" <=> VinAcceptable
              /\ px.out.vin.k = "str" => px.out.vin.s = VinCharacters
    /\ (VinAsked /\ px.out.vin.k = "str") => Len(px.out.vin.s) = 17

---------------------------------------------------------------------------
(* The response handling of read_vin and read_data_by_identifier *)

\* The identifier read_vin asks for: 0x00 0x90.
VinIdentifier == 144

\* n characters of a VIN, the first replaced by the byte `special`.
VinText(n, special) ==
    [i \in 1..n |-> IF i = 1 THEN special ELSE 48 + (i % 10)]

\* What the device may answer to the VIN request: a positive response that
\* repeats the identifier as one byte (0x90) or as two (0x00 0x90) before
\* the VIN bytes, a negative response, a truncated one, or nothing.
VinResponses ==
    { <<6 + n, 126, 0, 2 + n, 98, 144>> \o VinText(n, special) :
        n \in 0..MaxVinLen, special \in {65, 32, 0, 200} }
    \cup
    { <<7 + n, 126, 0, 3 + n, 98, 0, 144>> \o VinText(n, special) :
        n \in 0..MaxVinLen, special \in {65, 32, 0, 200} }
    \cup
    { NoneResp, <<5, 126, 0, 1, 98>>, <<7, 126, 0, 3, 127, 34, 49>>,
      <<7, 126, 0, 3, 98, 0, 145>> }

ResponseInit ==
    /\ state = "SECURITY_GRANTED"
    /\ ser = "open"
    /\ port = "None"
    /\ is_connected = FALSE
    /\ call = IdleCall
    /\ ret = Ret("None", <<>>, "")
    /\ chanLog = <<>>
    /\ run = NoRun
    /\ \E response \in VinResponses :
          calc = [fn |-> "input", seed |-> VinIdentifier, level |-> 0,
                  data |-> response, out |-> NoOut]
    /\ dl = NoDl
    /\ px = NoPx
    /\ clk = NoClk

\* The method fn has handled the response drawn and returns r.
Handled(fn, r) ==
    /\ calc.fn = "input"
    /\ calc' = [calc EXCEPT !.fn = fn, !.out = Out(r.out, 0, r.data)]
    /\ UNCHANGED <<state, ser, port, is_connected, call, ret, chanLog, run,
                   dl, px, clk>>

\* read_vin, from the response on.
HandleReadVin == Handled("read_vin", ReadVinResult(calc.data))

\* read_data_by_identifier(0x0090), from the response on.
HandleReadData ==
    Handled("read_data_by_identifier", ReadDataResult(calc.data, calc.seed))

ResponseNext ==
    \/ HandleReadVin
    \/ HandleReadData

ResponseSpec == ResponseInit /\ [][ResponseNext]_vars

---------------------------------------------------------------------------
(* C30 *)

\* The response r is a positive response to a read of the identifier:
\* byte 4 is 0x62, bytes 5 and 6 are the identifier (bytes counted from 0,
\* sequences from 1).
AcceptedFor(r, identifier) ==
    /\ Len(r) >= 7
    /\ r[5] = 98
    /\ r[6] = (identifier \div 256) % 256
    /\ r[7] = identifier % 256

\* The data of an accepted response: what follows the identifier.
ReturnedData(r) == IF Len(r) <= 7 THEN <<>> ELSE SubSeq(r, 8, Len(r))

\* The printable ASCII characters of d.
PrintableRun(d) == SelectSeq(d, LAMBDA b : b >= 32 /\ b <= 126)

---------------------------------------------------------------------------
(* maintain_session and the clock (archive/tech2_download.py) *)

\* KEEP_ALIVE_INTERVAL = 2.0, in seconds.
KEEP_ALIVE_INTERVAL == 2

\* `a >= b` on two DiagnosticState members: like `<`, an ordering that
\* enum.Enum does not define, so Python raises TypeError.
\* The result is "True", "False" or "TypeError".
EnumGreaterEqual(a, b) == "TypeError"

\* maintain_session() at time current_time.  The state comparison is the first
\* operand of `and`: it is evaluated on every call.
maintain_session(st, s, current_time, last_activity_time, script) ==
    LET atLeast == EnumGreaterEqual(st, "SESSION_STARTED") IN
    IF atLeast = "TypeError" THEN Outcome(Raise("TypeError"), st, <<>>)
    ELSE IF atLeast = "True"
            /\ current_time - last_activity_time > KEEP_ALIVE_INTERVAL
    THEN LET o == send_keep_alive(st, s, script) IN
         Outcome(IF o.ret.out \in {"True", "False"}
                 THEN Ret("None", <<>>, "") ELSE o.ret, o.state, o.log)
    ELSE Outcome(Ret("None", <<>>, ""), st, <<>>)

\* `self.ser.write(command)` returned in a call whose channel log is log:
\* the next statement sets last_activity_time.
Wrote(log) == \E i \in 1..Len(log) : log[i].ev = "write"

\* last_activity_time after a call made at time now: send_and_receive sets
\* it after every write that returns, connect() when the port is opened,
\* send_keep_alive after its send_and_receive call whatever that did.
last_activity_time(op, pre, o, now, last) ==
    CASE op = "connect" -> IF o.ret.out = "True" THEN now ELSE last
      [] op \in {"send_keep_alive", "maintain_session"} ->
            IF Wrote(o.log) THEN now
            ELSE IF op = "send_keep_alive"
                    /\ EnumLess(pre, "SESSION_STARTED") = "False"
                 THEN now ELSE last
      [] OTHER -> IF Wrote(o.log) THEN now ELSE last

\* The client is constructed (last_activity_time = 0) when the clock,
\* time.time(), is already far past the interval.
IdleInit ==
    /\ state = "DISCONNECTED"
    /\ ser = "None"
    /\ port = "None"
    /\ is_connected = FALSE
    /\ call = IdleCall
    /\ ret = Ret("None", <<>>, "")
    /\ chanLog = <<>>
    /\ run = NoRun
    /\ calc = NoCalc
    /\ dl = NoDl
    /\ px = NoPx
    /\ clk = [now |-> KEEP_ALIVE_INTERVAL + 1, last_activity_time |-> 0,
              gap |-> -1]

\* A method of the session client runs at time clk.now, with outcome o;
\* gap is the idle time maintain_session computed last.
TimedFinish(op, args, plan, o, gap) ==
    /\ call.op = "idle"
    /\ call' = Call(op, args, plan)
    /\ ret' = o.ret
    /\ state' = o.state
    /\ chanLog' = o.log
    /\ clk' = [clk EXCEPT !.last_activity_time =
                               last_activity_time(op, state, o, clk.now, @),
                           !.gap = gap]
    /\ UNCHANGED <<port, is_connected, run, calc, dl, px>>

TimedConnect ==
    \E okAt \in 0..ConnectRetries :
        LET o == connect(state, ser, okAt) IN
        /\ ser' = o.ser
        /\ TimedFinish("connect", Args(okAt, <<>>, FALSE), <<>>, o, clk.gap)

TimedStartDiagnosticSession ==
    \E script \in ServiceScripts :
        /\ TimedFinish("start_diagnostic_session", NoArgs, <<script>>,
                       start_diagnostic_session(state, ser, script), clk.gap)
        /\ UNCHANGED ser

TimedSendKeepAlive ==
    \E script \in ProbeScripts :
        /\ TimedFinish("send_keep_alive", NoArgs, <<script>>,
                       send_keep_alive(state, ser, script), clk.gap)
        /\ UNCHANGED ser

TimedReadVin ==
    \E script \in ProbeScripts :
        /\ TimedFinish("read_vin", NoArgs, <<script>>,
                       read_vin(state, ser, script), clk.gap)
        /\ UNCHANGED ser

\* run_interactive_mode, line 908: the call of maintain_session that opens
\* every turn of the loop.  What it raises is caught by the loop's
\* `except Exception`, and the next turn starts; when it returns the turn
\* goes on to input() and to the method the command names.
MaintainSession ==
    \E script \in ProbeScripts :
        /\ TimedFinish("maintain_session", NoArgs, <<script>>,
                       maintain_session(state, ser, clk.now,
                                        clk.last_activity_time, script),
                       clk.now - clk.last_activity_time)
        /\ UNCHANGED ser

\* A second passes: in time.sleep, in input(), or between two calls.
IdleTick ==
    /\ clk.now < MaxTime
    /\ clk' = [clk EXCEPT !.now = @ + 1]
    /\ UNCHANGED <<state, ser, port, is_connected, call, ret, chanLog, run,
                   calc, dl, px>>

IdleNext ==
    \/ TimedConnect
    \/ TimedStartDiagnosticSession
    \/ TimedSendKeepAlive
    \/ TimedReadVin
    \/ MaintainSession
    \/ Disconnect
    \/ Return
    \/ IdleTick

IdleSpec == IdleInit /\ [][IdleNext]_vars

---------------------------------------------------------------------------
(* C29 *)

\* The state is at least SESSION_STARTED.
InSession(st) == StateValue(st) >= StateValue("SESSION_STARTED")

\* A TesterPresent frame was written in a call whose channel log is log.
KeepAliveSent(log) ==
    \E i \in 1..Len(log) : log[i] = Ev("write", KeepAliveCommand)

\* C29: while the state is at least SESSION_STARTED, a call of
\* maintain_session that finds more than KEEP_ALIVE_INTERVAL seconds since
\* the last exchange writes a TesterPresent frame, and between the client's
\* operations the idle time never exceeds the interval by more than the
\* second it takes to notice.
C29_KeepAliveWheneverIdle ==
    /\ (call.op = "maintain_session" /\ InSession(call.pre)
            /\ call.ser = "open" /\ clk.gap > KEEP_ALIVE_INTERVAL)
           => KeepAliveSent(chanLog)
    /\ (InSession(state) /\ ser = "open")
           => clk.now - clk.last_activity_time <= KEEP_ALIVE_INTERVAL + 1

---------------------------------------------------------------------------
(* C31 *)

\* The response r accepts a reset of the type asked for: byte 4 is 0x51 and
\* byte 5 is the type (bytes counted from 0, sequences from 1).
ResetAccepted(r, reset_type) ==
    IsComplete(r) /\ Len(r) >= 6 /\ r[5] = 81 /\ r[6] = reset_type

---------------------------------------------------------------------------
(* translate_error_code on every byte *)

ErrorInit ==
    /\ state = "DISCONNECTED"
    /\ ser = "None"
    /\ port = "None"
    /\ is_connected = FALSE
    /\ call = IdleCall
    /\ ret = Ret("None", <<>>, "")
    /\ chanLog = <<>>
    /\ run = NoRun
    /\ \E code \in 0..255 :
          calc = [fn |-> "input", seed |-> code, level |-> 0, data |-> <<>>,
                  out |-> NoOut]
    /\ dl = NoDl
    /\ px = NoPx
    /\ clk = NoClk

\* translate_error_code(code) returns its text.
TranslateErrorCode ==
    /\ calc.fn = "input"
    /\ calc' = [calc EXCEPT !.fn = "translate_error_code",
                            !.out = Out("str", 0, translate_error_code(calc.seed))]
    /\ UNCHANGED <<state, ser, port, is_connected, call, ret, chanLog, run,
                   dl, px, clk>>

ErrorNext == TranslateErrorCode

ErrorSpec == ErrorInit /\ [][ErrorNext]_vars

---------------------------------------------------------------------------
(* C32 *)

\* The NRC table as the specification gives it.
NrcTable ==
    [c \in {16, 17, 18, 33, 34, 35, 49, 51, 53, 54, 55, 120, 127} |->
        CASE c = 16  -> "General reject"
          [] c = 17  -> "Service not supported"
          [] c = 18  -> "Sub-function not supported"
          [] c = 33  -> "Busy repeat request"
          [] c = 34  -> "Conditions not correct"
          [] c = 35  -> "Routine not completed"
          [] c = 49  -> "Request out of range"
          [] c = 51  -> "Security access denied"
          [] c = 53  -> "Invalid key supplied"
          [] c = 54  -> "Exceeded attempts"
          [] c = 55  -> "Required time delay not expired"
          [] c = 120 -> "Response pending"
          [] c = 127 -> "General error"]

\* C32: translate_error_code is total over 0..255: each of the 13 codes of
\* the NRC table maps to exactly the text the table gives for it, and every
\* other code maps to 'Unknown error code: 0x<code>'.
C32_NrcTableVerbatim ==
    calc.fn = "translate_error_code"
    => /\ calc.out.kind = "str"
       /\ calc.out.frame =
             (IF calc.seed \in DOMAIN NrcTable THEN NrcTable[calc.seed]
              ELSE "Unknown error code: 0x" \o Hex2(calc.seed))

---------------------------------------------------------------------------
(* C33 *)

\* The device acknowledges the frame written in the first attempt of the
\* last call: it delivers a complete response whose byte 4 is 0x7E.
Acknowledges(script) ==
    /\ Len(script) >= 1
    /\ DeliversFrame(script[1])
    /\ ResponseWith(Flatten(script[1].polls, 1), 126)

\* C33: send_keep_alive, called on an open channel while the state is at
\* least SESSION_STARTED, returns True when the device acknowledges the
\* TesterPresent frame with a response whose byte 4 is 0x7E.
C33_KeepAliveAcknowledged ==
    (/\ call.op = "send_keep_alive"
     /\ InSession(call.pre)
     /\ call.ser = "open"
     /\ Acknowledges(call.plan[1]))
    => ret.out = "True"

---------------------------------------------------------------------------
(* The two validate_vin functions
   (archive/process_bin_revised.py, archive/tech2_workflow_revised.py) *)

\* str.upper() of the ASCII character with code c.
upper(c) == IF c >= 97 /\ c <= 122 THEN c - 32 ELSE c

\* "ABCDEFGHJKLMNPRSTUVWXYZ0123456789": the digits and the capital letters
\* other than I, O and Q.
allowed_chars == (48..57) \cup ((65..90) \ {73, 79, 81})

\* process_bin_revised.validate_vin(vin), vin a string (its character codes).
validate_vin(vin) ==
    IF vin = <<>> \/ Len(vin) # 17 THEN FALSE
    ELSE \A i \in 1..Len(vin) : upper(vin[i]) \in allowed_chars

\* tech2_workflow_revised.validate_vin(vin): the generator filters the
\* characters with `if c.isalnum()` before they are tested.
workflow_validate_vin(vin) ==
    IF vin = <<>> \/ Len(vin) # 17 THEN FALSE
    ELSE \A i \in 1..Len(vin) :
             isalnum(upper(vin[i])) => upper(vin[i]) \in allowed_chars

\* A string of n characters, all '1' but the one at pos.
VinString(n, pos, special) ==
    [i \in 1..n |-> IF i = pos THEN special ELSE 49]

\* The strings given to validate_vin: every length up to MaxVinLen, with a
\* capital or small letter, one of I, O, Q, a digit, or '.', '-', ' ' at
\* the start, the check-digit position or the end.
VinStrings ==
    { VinString(n, pos, special) :
        n \in 0..MaxVinLen, pos \in {1, 9, 17},
        special \in {65, 97, 73, 111, 81, 48, 46, 45, 32} }

ValidateInit ==
    /\ state = "DISCONNECTED"
    /\ ser = "None"
    /\ port = "None"
    /\ is_connected = FALSE
    /\ call = IdleCall
    /\ ret = Ret("None", <<>>, "")
    /\ chanLog = <<>>
    /\ run = NoRun
    /\ \E vin \in VinStrings :
          calc = [fn |-> "input", seed |-> 0, level |-> 0, data |-> vin,
                  out |-> NoOut]
    /\ dl = NoDl
    /\ px = NoPx
    /\ clk = NoClk

\* The function fn has been applied to the string drawn and returned b.
Validated(fn, b) ==
    /\ calc.fn = "input"
    /\ calc' = [calc EXCEPT !.fn = fn,
                            !.out = Out(IF b THEN "True" ELSE "False", 0, <<>>)]
    /\ UNCHANGED <<state, ser, port, is_connected, call, ret, chanLog, run,
                   dl, px, clk>>

ValidateVin == Validated("validate_vin", validate_vin(calc.data))

WorkflowValidateVin ==
    Validated("workflow_validate_vin", workflow_validate_vin(calc.data))

ValidateNext ==
    \/ ValidateVin
    \/ WorkflowValidateVin

ValidateSpec == ValidateInit /\ [][ValidateNext]_vars

---------------------------------------------------------------------------
(* C34 *)

\* A digit or a letter other than I, O and Q, in either case.
VinCharacter(c) ==
    \/ c >= 48 /\ c <= 57
    \/ /\ \/ c >= 65 /\ c <= 90
          \/ c >= 97 /\ c <= 122
       /\ c \notin {73, 79, 81, 105, 111, 113}

\* Exactly 17 characters, each a VIN character.
WellFormedVin(vin) ==
    Len(vin) = 17 /\ \A i \in 1..Len(vin) : VinCharacter(vin[i])

\* C34: both validate_vin definitions accept exactly the strings of 17
\* characters each of which, upper-cased, is a digit or a letter other than
\* I, O and Q; a 17-character string with any other character is rejected
\* by both.
C34_BothValidateVinAgree ==
    calc.fn \in {"validate_vin", "workflow_validate_vin"}
    => (calc.out.kind = "True" <=> WellFormedVin(calc.data))

---------------------------------------------------------------------------
(* C35 *)

\* C35: in every state reachable by connect (succeeding or failing),
\* disconnect and the service calls, a session state other than
\* DISCONNECTED implies that the serial channel is open.
C35_SessionImpliesOpenChannel == state # "DISCONNECTED" => ser = "open"

---------------------------------------------------------------------------
(* C36 *)

\* C36: a response returned by send_and_receive is exactly one frame (its
\* length equals its first byte), and the data read_data_by_identifier or
\* execute_routine hand to the caller lie within the declared length of
\* the frame received.
C36_ResponseIsOneFrame ==
    /\ (call.op = "send_and_receive" /\ ret.out = "bytes")
           => Len(ret.data) = ret.data[1]
    /\ (call.op = "read_data_by_identifier" /\ ret.out = "bytes")
           => Len(ret.data) <= Received(chanLog)[1] - 7
    /\ (call.op = "execute_routine" /\ ret.out = "bytes")
           => Len(ret.data) <= Received(chanLog)[1] - 8

---------------------------------------------------------------------------
(* C37 *)

RECURSIVE StrippedLength(_, _)
\* The sum, over the chunks from the i-th on, of max(len(chunk) - 2, 0).
StrippedLength(log, i) ==
    IF i > Len(CHUNK_COMMANDS) THEN 0
    ELSE (IF ChunkReadAt(log, i) = 0 THEN 0
          ELSE LET n == Len(log[ChunkReadAt(log, i)].d) IN
               IF n > 2 THEN n - 2 ELSE 0)
         + StrippedLength(log, i + 1)

\* C37: whatever the lengths of the chunks received (0, 1 and 2 bytes
\* included), the image that download_tech2_data and full_data_workflow
\* reassemble is the in-order concatenation of each chunk with its first
\* two bytes removed: its length is the sum of max(len(chunk) - 2, 0) and
\* no chunk's header byte is part of it.
C37_ImageIsChunksWithoutHeaders ==
    (DlDone /\ dl.impl \in {"import_serial", "full_data_workflow"}
     /\ dl.result = "image")
        => /\ Len(dl.image) = StrippedLength(dl.log, 1)
           /\ dl.image = ReceivedData(dl.log, 1)

---------------------------------------------------------------------------
(* process_bin_data (src/process_bin.py) *)

\* read_commands of process_bin_data: the last four bytes of each download
\* command.
bin_read_commands ==
    << <<0, 0, 166, 66>>,
       <<0, 166, 166, 156>>,
       <<1, 76, 166, 245>>,
       <<1, 242, 166, 79>>,
       <<2, 152, 50, 28>> >>

\* `offset = (cmd[0] << 8) | cmd[1]`
bin_offset(cmd) == cmd[1] * 256 + cmd[2]

\* `length = (cmd[2] << 8) | cmd[3]`
bin_length(cmd) == cmd[3] * 256 + cmd[4]

RECURSIVE bin_all_data(_, _)
\* The for loop from command i on: `chunk = data[offset:offset + length]`,
\* appended whether it is short or not.
bin_all_data(data, i) ==
    IF i > Len(bin_read_commands) THEN <<>>
    ELSE LET cmd == bin_read_commands[i]
             chunk == Slice(data, bin_offset(cmd),
                            bin_offset(cmd) + bin_length(cmd))
         IN  chunk \o bin_all_data(data, i + 1)

\* process_bin_data(data): None for empty data.
process_bin_data(data) ==
    IF data = <<>> THEN Out("None", 0, <<>>)
    ELSE Out("bytes", 0, bin_all_data(data, 1))

\* The files given to process_bin_data: the first n bytes of what the
\* device holds, followed by zeros when the file is longer than the image.
BinFiles ==
    { [k \in 1..n |-> IF k <= 714 THEN Memory(k - 1) ELSE 0] :
        n \in { l \in 0..MaxBinLen : l % 7 = 0 } }

ProcessInit ==
    /\ state = "DISCONNECTED"
    /\ ser = "None"
    /\ port = "None"
    /\ is_connected = FALSE
    /\ call = IdleCall
    /\ ret = Ret("None", <<>>, "")
    /\ chanLog = <<>>
    /\ run = NoRun
    /\ \E data \in BinFiles :
          calc = [fn |-> "input", seed |-> 0, level |-> 0, data |-> data,
                  out |-> NoOut]
    /\ dl = NoDl
    /\ px = NoPx
    /\ clk = NoClk

ProcessBinData ==
    /\ calc.fn = "input"
    /\ calc' = [calc EXCEPT !.fn = "process_bin_data",
                            !.out = process_bin_data(calc.data)]
    /\ UNCHANGED <<state, ser, port, is_connected, call, ret, chanLog, run,
                   dl, px, clk>>

ProcessNext == ProcessBinData

ProcessSpec == ProcessInit /\ [][ProcessNext]_vars

---------------------------------------------------------------------------
(* C38 *)

\* The offsets and the lengths the read commands encode.
EncodedOffsets == <<0, 166, 332, 498, 664>>
EncodedLengths == <<166, 166, 166, 166, 50>>

RECURSIVE SplitAt(_, _)
\* The chunks of data at the encoded offsets, of the encoded lengths, from
\* the i-th on, one after the other.
SplitAt(data, i) ==
    IF i > Len(EncodedOffsets) THEN <<>>
    ELSE Slice(data, EncodedOffsets[i], EncodedOffsets[i] + EncodedLengths[i])
         \o SplitAt(data, i + 1)

\* C38: process_bin_data splits its input at the offsets 0, 166, 332, 498,
\* 664 into chunks of the lengths 166, 166, 166, 166, 50: the chunks do not
\* overlap, and for a 714-byte input the output equals the input.
C38_ChunksOfEncodedLengths ==
    (calc.fn = "process_bin_data" /\ calc.data # <<>>)
    => /\ calc.out.kind = "bytes"
       /\ calc.out.frame = SplitAt(calc.data, 1)
       /\ Len(calc.out.frame) <= Len(calc.data)
       /\ Len(calc.data) = 714 => calc.out.frame = calc.data

---------------------------------------------------------------------------
(* C39 *)

\* v rotated left by b bits (0 < b < 16) as a 16-bit word.
RotL16(v, b) == ((v * (2 ^ b)) % 65536) + (v \div (2 ^ (16 - b)))

\* The high and the low byte of the 16-bit word v exchanged.
Swap16(v) == (v % 256) * 256 + (v \div 256)

\* The seed a key comes from, the four steps undone from the last to the
\* first: add 0x3F52, subtract 0xF8DA and swap the bytes back, rotate right
\* by 10 (left by 6), rotate left by 7.
SeedOfKey(key) ==
    LET a == (key + 16210) % 65536
        b == Swap16((a + 65536 - 63706) % 65536)
        c == RotL16(b, 6)
    IN  RotL16(c, 7)

\* C39: TRIONIC8_Algorithm.compute is a bijection on [0, 0xFFFF]: the key
\* of a 16-bit seed is a 16-bit value from which the seed is recovered (so
\* two different seeds never give the same key), and every 16-bit value is
\* the key of the seed recovered from it (so every value is a key).
C39_ComputeIsBijection ==
    (calc.fn = "compute" /\ calc.seed >= 0 /\ calc.seed <= 65535)
    => /\ calc.out.kind = "key"
       /\ calc.out.key \in 0..65535
       /\ SeedOfKey(calc.out.key) = calc.seed
       /\ SeedOfKey(calc.seed) \in 0..65535
       /\ compute(SeedOfKey(calc.seed)) = Out("key", calc.seed, <<>>)

\* The key of seed 0xFFFF has been computed: 0xB987.
C39_Witness ==
    /\ calc.fn = "compute"
    /\ calc.seed = 65535
    /\ calc.out = Out("key", 47495, <<>>)
    /\ SeedOfKey(47495) = 65535

---------------------------------------------------------------------------
(* What the workflows report of the seed (tech2_workflow.py,
   archive/process_bin_revised.py, archive/tech2_workflow_revised.py) *)

\* A line "... not found" / "Could not extract ..." in place of a value.
NotFound == [k |-> "not found", s |-> <<>>, n |-> 0]

\* What a workflow reports: the seed and the key it prints or logs (Absent:
\* no line about it), and whether the summary block of main is printed.
Reported(seed, key, summary) ==
    [kind |-> "report", seed |-> seed, key |-> key, summary |-> summary]

\* `if seed:` on what an extraction gave: None and 0 are false.
Truthy(v) == v.k = "int" /\ v.n # 0

\* analyze_binary_file lines 145-157 and full_data_workflow lines 61-67:
\* `if seed:` prints the seed and the key computed from it, `else:` that
\* the seed was not found.
SeedReport(seed) ==
    IF Truthy(seed)
    THEN Reported(seed, Num(compute(seed.n).key), FALSE)
    ELSE Reported(NotFound, Absent, FALSE)

\* analyze_binary_file(filename), data being what the file holds.
analyze_binary_file(data) ==
    IF data = <<>> THEN Reported(Absent, Absent, FALSE)
    ELSE SeedReport(extract_data_from_binary(data, "seed").seed)

\* full_data_workflow from line 46 on, all_data being the image put together.
full_data_workflow(all_data) ==
    IF all_data = <<>> THEN Reported(Absent, Absent, FALSE)
    ELSE SeedReport(extract_data_from_binary(all_data, "seed").seed)

\* quick_seed_key_workflow on the data downloaded, and the block main prints
\* `if seed and key:`.
quick_seed_key_workflow(data) ==
    LET seed == get_seed_only(data).seed IN
    IF data = <<>> \/ seed.k # "int" THEN Reported(Absent, Absent, FALSE)
    ELSE LET key == compute(seed.n).key IN
         Reported(seed, Num(key), seed.n # 0 /\ key # 0)

\* The images reported on: every length up to MaxImageLen, holding the seed
\* 0, the seed whose key is 0 (0xCF08), or another seed.
ReportImages ==
    { Image(n, 16, 65, seed) :
        n \in 0..MaxImageLen, seed \in {0, 53000, 4660, 65535} }

ReportInit ==
    /\ state = "DISCONNECTED"
    /\ ser = "None"
    /\ port = "None"
    /\ is_connected = FALSE
    /\ call = IdleCall
    /\ ret = Ret("None", <<>>, "")
    /\ chanLog = <<>>
    /\ run = NoRun
    /\ calc = NoCalc
    /\ dl = NoDl
    /\ \E data \in ReportImages :
          px = [fn |-> "input", data |-> data, data_type |-> "seed",
                out |-> NoParsed]
    /\ clk = NoClk

AnalyzeBinaryFile ==
    Extracted("analyze_binary_file", "seed", analyze_binary_file(px.data))

FullDataWorkflow ==
    Extracted("full_data_workflow", "seed", full_data_workflow(px.data))

QuickSeedKeyWorkflow ==
    Extracted("quick_seed_key_workflow", "seed",
              quick_seed_key_workflow(px.data))

ReportNext ==
    \/ AnalyzeBinaryFile
    \/ FullDataWorkflow
    \/ QuickSeedKeyWorkflow

ReportSpec == ReportInit /\ [][ReportNext]_vars

---------------------------------------------------------------------------
(* C40 *)

\* The seed an image long enough holds at 0x30.
SeedAt30(data) == 256 * data[49] + data[50]

\* The key of a 16-bit seed.
KeyOfSeed(seed) == compute(seed).key

\* C40: whenever the image is long enough to hold a seed, the workflow
\* reports the seed and the key computed from it, for every seed value
\* (seed 0x0000 and the seed whose key is 0x0000 included); the quick
\* workflow prints them in its summary; and a seed that was extracted is
\* never reported as not found.
C40_ExtractedSeedIsReported ==
    (px.fn \in {"analyze_binary_file", "full_data_workflow",
                "quick_seed_key_workflow"}
     /\ Len(px.data) >= 48 + 2)
    => /\ px.out.seed = Num(SeedAt30(px.data))
       /\ px.out.key = Num(KeyOfSeed(SeedAt30(px.data)))
       /\ px.out.seed # NotFound
       /\ px.fn = "quick_seed_key_workflow" => px.out.summary

====
